---- MODULE Spec2Model ----
(***************************************************************************)
(* NewsFlow-Bot: the feed-ingestion and dispatch engine.                   *)
(*                                                                         *)
(* The model follows src/src/newsflow: the Dispatcher's cycle              *)
(* (services/dispatcher.py), the FeedService (services/feed_service.py),   *)
(* the two repositories and the ORM models.  The database is modelled as   *)
(* committed tables plus, for every open session, the rows and column      *)
(* changes that session has written and not yet committed.  A session      *)
(* reads the committed tables together with its own pending writes.        *)
(***************************************************************************)
EXTENDS Naturals, Integers, Sequences, FiniteSets, TLC

\* ----------------------------------------------------------------- bounds
NumFeeds == 2
MaxGuid == 3
MaxGuidOther == 2
MaxPub == 2
MaxSubs == 2
MaxCycles == 2
MaxFaults == 2
MaxBulkCalls == 2
MaxBulkLen == 3
MaxTag == 2
MaxQuota == 2
NumHandlers == 2
MaxCmds == 4
NumChannels == 2
MaxTranslateCalls == 3
MaxClock == 2
CacheMaxSize == 2
CacheTtl == 1
NumCallers == 2
FetcherMaxConcurrent == 2
NumFetchTasks == 4
BatchMaxConcurrent == 2
MaxBatch == 3
NumJobs == 2
MaxTextLen == 8
MaxLength == 8
MaxDue == 2
MaxStarted == 2
MaxBacklog == 12
MaxOtherRows == 2
MaxSentBefore == 2
MaxSendFailures == 2
MaxBacklogCycles == 2
MaxSettingsCalls == 2

\* ------------------------------------------------------ program constants
UnsentLimit == 10
ErrorThreshold == 10

\* ------------------------------------------------------------- universes
\* both platform tokens are configured; a platform whose bot never becomes
\* ready behaves as one that is not configured
Platforms == {"discord", "telegram"}
FeedIds == 1..NumFeeds
\* the items upstream may serve: feed 1 has MaxGuid of them, the others fewer
Guids == 1..(IF MaxGuid > MaxGuidOther THEN MaxGuid ELSE MaxGuidOther)
GuidsOf(f) == IF f = 1 THEN 1..MaxGuid ELSE 1..MaxGuidOther
\* published_at: 0 stands for NULL, larger is newer
PubVals == 0..MaxPub
Keys == {k \in FeedIds \X Guids : k[2] \in GuidsOf(k[1])}
\* the bindings users may ask for: one discord channel, any feed; both
\* loops serve them through the adapter registered for "discord"
SubKeys == {s \in Platforms \X FeedIds : s[1] = "discord"}
Pairs == {p \in SubKeys \X Guids : p[2] \in GuidsOf(p[1][2])}
Items == [guid : Guids, pub : PubVals]
NoRow == [none |-> TRUE]
NoChange == [nochange |-> TRUE]
None == "None"
\* no subscription is being dispatched to: a pair like the keys of SubKeys
NoSub == <<"none", 0>>
\* values of an ETag or Last-Modified header; 0 stands for an absent header
\* and for a NULL column
Tags == 0..MaxTag
\* in an UPDATE: the column is not among those set
Keep == -1
Handlers == 1..NumHandlers
Channels == 1..NumChannels
\* target languages users may set; the provider's supports_language holds
\* for those of Supported
Langs == {"zh-CN", "en", "tlh"}
Supported == {"zh-CN", "en"}
\* Subscription's column defaults
NewSettings == [translate |-> TRUE, target_language |-> "zh-CN"]
\* FeedEntry's translation columns when created: all NULL
NoTranslation == [translation_language |-> None, title_translated |-> None,
                  summary_translated |-> None]
NoMessage == [none |-> TRUE]
\* a handler that runs no command
Free == [pc |-> "free", sub |-> None]
NoCall == [feed |-> 0, data |-> <<>>, created |-> <<>>, raised |-> FALSE]

\* the tasks that call fetch_feed of the shared FeedFetcher: dispatch loops,
\* command handlers, the tasks of fetch_multiple
FetchTasks == 1..NumFetchTasks
\* texts are sequences of characters, a letter or a space
Chars == {"a", " "}
TextsUpTo(n) == UNION {[1..m -> Chars] : m \in 0..n}
\* no call of truncate_text
NoTruncation == [text |-> <<>>, max_length |-> 0, result |-> <<>>, state |-> "none"]
\* no stored row is older than the retention period
NoneAged == [entries |-> {}, receipts |-> {}]
JobIds == 1..NumJobs
\* a job id nothing was added under
NoJob == [scheduled |-> FALSE, due |-> 0, instances |-> 0, calls |-> 0,
          skipped |-> FALSE, merged |-> FALSE, started |-> 0]
\* no translate_batch call under way
NoBatch == [texts |-> <<>>, pc |-> <<>>, results |-> <<>>, completed |-> <<>>,
            semaphore |-> 0, returned |-> <<>>, state |-> "idle"]
\* the tasks that call the shared TranslationService
Callers == 1..NumCallers
\* texts handed to translate: a blank one, and three of which the last two
\* have SHA-256 digests with the same first 16 hex digits
Texts == {" ", "a", "b", "c"}
TargetLangs == {"zh-CN", "en"}
Sha16(text) == IF text = "c" THEN "b" ELSE text
\* TranslationService._cache_key, the provider being the same for all calls
CacheKey(text, target_lang) == <<target_lang, Sha16(text)>>
CacheKeys == {CacheKey(text, lang) : text \in Texts, lang \in TargetLangs}
\* translated texts: the translation of a text into a language (a provider may
\* word it in more than one way), the empty string, and Python's None
Wording(text, lang, variant) == [of |-> text, lang |-> lang, variant |-> variant]
EmptyText == [of |-> "", lang |-> "", variant |-> 0]
NoText == [of |-> None, lang |-> None, variant |-> 0]
\* a caller that is in no translate call
NoTranslate == [pc |-> "free", text |-> "", target_lang |-> "", began |-> 0,
                changesAtGet |-> 0]

\* the subscriptions channels of one platform may hold, and the feed_url
\* update_settings may be given: 0 for none (None or ""), f for the URL of
\* feed f, NumFeeds + 1 for a URL no feed is stored under
ChannelKeys == Channels \X FeedIds
Urls == 0..(NumFeeds + 1)
\* no update_settings call has returned
NoSettingsCall == [channel |-> 0, feed_url |-> 0, translate |-> None,
                   target_language |-> None, result |-> None, calls |-> 0]

\* the keys given to a MemoryCache used on its own, one more than it holds
LruKeys == {k \in CacheKeys : k[1] = "en"}
\* no operation of the MemoryCache has returned
NoCacheOp == [name |-> None, key |-> None, evicted |-> {}]

\* no subscription with a backlog is served
NoBacklog == [stored |-> {}, receipts |-> {}, todo |-> <<>>, log |-> <<>>,
              unsent |-> {}, pc |-> "none", cycles |-> 0, failures |-> 0]

VARIABLES
    adapters,       \* Dispatcher._adapters: platforms with a registered adapter
    feeds,          \* table feeds: FeedIds -> row or NoRow
    feed_entries,   \* table feed_entries: Keys -> the rows stored under that key
    subscriptions,  \* table subscriptions: SubKeys -> row or NoRow
    sent_entries,   \* table sent_entries: Pairs -> number of rows
    pc,             \* per platform: position of the dispatch loop it started
    sess,           \* per loop: the uncommitted writes of the cycle's session
    loaded,         \* per loop: the Feed objects loaded by get_all_active_feeds
    feedsTodo,      \* per loop: feeds still to fetch in fetch_all_feeds
    subsTodo,       \* per loop: subscriptions still to serve
    cur,            \* per loop: the subscription being served
    todo,           \* per loop: entries still to send to cur
    cyc,            \* per loop: what the current (or last) cycle did
    retry,          \* pairs whose send failed in the cycle that ended last
    delivered,      \* Pairs -> number of sends that returned success (capped at 2)
    streak,         \* FeedIds -> number of cycles in a row, up to the one that
                    \* ended last, in which the feed's fetch failed
    cyclesLeft,     \* cycles that may still start
    faultsLeft,     \* failures the environment may still cause: a fetch that
                    \* fails, a send that fails, a storage statement that fails
    bulkIn,         \* the items earlier create_entries_bulk calls were given
    bulkRet,        \* the last create_entries_bulk call: arguments and result
    bulkCalls,      \* number of create_entries_bulk calls made
    validators,     \* the ETag and Last-Modified values upstream sends with a
                    \* document (never changed)
    max_feeds_per_channel,  \* the setting of that name (never changed)
    handler,        \* per command handler: the subscribe command it is running
    cmdLog,         \* the commands that have returned: arguments, result, and
                    \* the tables before and after the handler's last step
    translator,     \* whether a translation provider is configured (never changed)
    raising,        \* whether composing or sending a message can raise: the
                    \* translation service cannot be constructed, or the
                    \* MessageSender registered is not one of the two adapters,
                    \* whose send_message catches every exception (never changed)
    settings,       \* Channels -> columns translate, target_language of the
                    \* channel's subscription to one feed
    translation,    \* the translation columns of one entry of that feed
    sentMessage,    \* the Message composed last, and for which subscription
    channelSubs,    \* the subscriptions rows of the channels of one platform:
                    \* ChannelKeys -> is_active, translate, target_language
    settingsCall,   \* the update_settings call that returned last: arguments
                    \* and result, and the number of calls so far
    now,            \* time.time(), in ticks
    cache,          \* MemoryCache._cache, oldest first: key, value, expires_at
    translating,    \* per caller: the TranslationService.translate call it is in
    translateLog,   \* the translate calls that have returned, in order of return
    changes,        \* per cache key: how often its entry was written or dropped
                    \* (expired or evicted)
    semaphore,      \* FeedFetcher._semaphore: its value
    fetching,       \* per task that calls fetch_feed: where it is in the call
                    \* and how its last fetch ended
    jobs,           \* per job id of the TaskScheduler: whether it is scheduled,
                    \* the run times due and not yet processed, the instances
                    \* running, the calls of func the running instance has been
                    \* given, and what has happened to the job so far
    batch,          \* the translate_batch call under way: its texts, the state
                    \* and result of each translate_with_limit task, the order
                    \* they completed in, its semaphore, what it returned
    foreign_keys,   \* whether the database enforces foreign keys, and with
                    \* them ON DELETE CASCADE (never changed)
    aged,           \* the entries whose created_at and the receipts whose
                    \* sent_at lie further back than the retention period
    truncation,     \* a call of truncate_text: its arguments and its result
    lru,            \* a MemoryCache used on its own: the operation that
                    \* returned last, the keys in the order of their last
                    \* use by get or set, least recently used first, and the
                    \* keys in the order of their last set
    backlog         \* one subscription served by _dispatch_to_subscription:
                    \* the feed_entries rows stored, its receipts, the entries
                    \* the query returned and not yet gone through, and what
                    \* the cycle has sent

vars == <<adapters, feeds, feed_entries, subscriptions, sent_entries,
          pc, sess, loaded, feedsTodo, subsTodo, cur, todo, cyc, retry,
          delivered, streak, cyclesLeft, faultsLeft, bulkIn, bulkRet, bulkCalls,
          validators, max_feeds_per_channel, handler, cmdLog,
          translator, raising, settings, translation, sentMessage,
          channelSubs, settingsCall,
          now, cache, translating, translateLog, changes,
          semaphore, fetching, batch, jobs, foreign_keys, aged, truncation,
          backlog, lru>>

dbVars == <<feeds, feed_entries, subscriptions, sent_entries>>
loopVars == <<pc, sess, loaded, feedsTodo, subsTodo, cur, todo, cyc>>
histVars == <<retry, delivered, streak>>
bulkVars == <<bulkIn, bulkRet, bulkCalls>>
confVars == <<validators, max_feeds_per_channel, translator, foreign_keys, raising>>
cmdVars == <<handler, cmdLog>>
trVars == <<settings, translation, sentMessage, channelSubs, settingsCall>>
cacheVars == <<now, cache, translating, translateLog, changes>>
fetcherVars == <<semaphore, fetching>>
svcVars == <<cacheVars, fetcherVars, batch, jobs, aged, truncation, backlog, lru>>
\* what the actions of the services leave alone
coreVars == <<adapters, dbVars, loopVars, histVars, cyclesLeft, faultsLeft,
              bulkVars, confVars, cmdVars, trVars>>
notCache == <<fetcherVars, batch, jobs, aged, truncation, backlog, lru>>
notFetcher == <<cacheVars, batch, jobs, aged, truncation, backlog, lru>>
notBatch == <<cacheVars, fetcherVars, jobs, aged, truncation, backlog, lru>>
notJobs == <<cacheVars, fetcherVars, batch, aged, truncation, backlog, lru>>
notAged == <<cacheVars, fetcherVars, batch, jobs, truncation, backlog, lru>>
notTruncation == <<cacheVars, fetcherVars, batch, jobs, aged, backlog, lru>>
notBacklog == <<cacheVars, fetcherVars, batch, jobs, aged, truncation, lru>>
notLru == <<translating, translateLog, changes, fetcherVars, batch, jobs, aged,
           truncation, backlog>>

\* -------------------------------------------------------------- helpers
RECURSIVE SeqsOf(_, _)
\* the sequences over S without repetition, of length n
SeqsOf(S, n) ==
    IF n = 0 THEN {<<>>}
    ELSE UNION {{<<x>> \o q : q \in SeqsOf(S \ {x}, n - 1)} : x \in S}

Perms(S) == SeqsOf(S, Cardinality(S))

Take(q, n) == SubSeq(q, 1, IF Len(q) < n THEN Len(q) ELSE n)

IncTo(n, cap) == IF n < cap THEN n + 1 ELSE cap
Inc2(n) == IF n < 2 THEN n + 1 ELSE 2

EmptyEntries == [k \in Keys |-> <<>>]
EmptyReceipts == [p \in Pairs |-> 0]
EmptySession ==
    [entries |-> EmptyEntries,
     receipts |-> EmptyReceipts,
     feedUpd |-> [f \in FeedIds |-> NoChange],
     broken |-> FALSE]
EmptyCycle ==
    [new |-> {}, failedFeeds |-> {}, notModified |-> {}, log |-> <<>>,
     owed |-> {}, queried |-> {}, outcome |-> None,
     statementErrors |-> {}, duplicates |-> {}]

RECURSIVE Ascending(_)
\* a set of numbers as a list, smallest first
Ascending(S) ==
    IF S = {} THEN <<>>
    ELSE LET m == CHOOSE x \in S : \A y \in S : x <= y
         IN <<m>> \o Ascending(S \ {m})

\* an unordered SELECT returns the rows in primary-key order
FeedList(S) == Ascending(S)
SubOrder == <<<<"discord", 1>>>> \o
            [i \in 1..(NumFeeds - 1) |-> <<"discord", i + 1>>]
SubList(S) == SelectSeq(SubOrder, LAMBDA s : s \in S)

\* --------------------------------------------------- models/feed.py (Feed)
NewFeed == [is_active |-> TRUE, error_count |-> 0, last_error |-> FALSE,
            etag |-> 0, last_modified |-> 0]

\* a mark_error that counts and never deactivates
MarkErrorCountOnly(row) ==
    [error_count |-> row.error_count + 1, last_error |-> TRUE, deactivate |-> FALSE,
     etag |-> Keep, last_modified |-> Keep]

\* Feed.mark_error: the attributes it leaves changed on the loaded object
MarkError(row) ==
    [error_count |-> row.error_count + 1,
     last_error |-> TRUE,
     deactivate |-> row.error_count + 1 >= ErrorThreshold,
     etag |-> Keep, last_modified |-> Keep]

\* an update_feed_metadata that writes the validators it is given, absent or not
UpdateFeedMetadataOverwrite(etag, last_modified) ==
    [error_count |-> 0, last_error |-> FALSE, deactivate |-> FALSE,
     etag |-> etag, last_modified |-> last_modified]

\* FeedRepository.update_feed_metadata: UPDATE feeds SET error_count = 0,
\* last_error = NULL, and etag, last_modified when the caller passed a value
\* that is not empty (is_active is not among the columns)
UpdateFeedMetadata(etag, last_modified) ==
    [error_count |-> 0, last_error |-> FALSE, deactivate |-> FALSE,
     etag |-> IF etag # 0 THEN etag ELSE Keep,
     last_modified |-> IF last_modified # 0 THEN last_modified ELSE Keep]

\* the UPDATE a flush or commit issues for a changed feed row
ApplyFeedUpd(row, upd) ==
    IF upd = NoChange \/ row = NoRow THEN row
    ELSE [is_active |-> IF upd.deactivate THEN FALSE ELSE row.is_active,
          error_count |-> upd.error_count,
          last_error |-> upd.last_error,
          etag |-> IF upd.etag = Keep THEN row.etag ELSE upd.etag,
          last_modified |-> IF upd.last_modified = Keep THEN row.last_modified
                            ELSE upd.last_modified]

\* ------------------------------------- repositories/feed_repository.py
\* a lookup that never finds the row
EntryNeverFound(rows, f, g) == <<>>

\* FeedRepository.get_entry_by_guid on the rows a session sees: the rows
\* matching (feed_id, guid); the empty list is Python's None
GetEntryByGuid(rows, f, g) == rows[<<f, g>>]

\* the unique index ix_feed_entries_feed_guid, checked when a row is flushed
EntryIndexOk(rows, f, g) == rows[<<f, g>>] = <<>>

\* FeedRepository.create_entry: INSERT and flush
CreateEntry(rows, f, item) ==
    [rows EXCEPT ![<<f, item.guid>>] = Append(@, item.pub)]

RECURSIVE BulkLoop(_, _, _, _)
BulkLoop(rows, f, data, created) ==
    IF data = <<>> THEN [rows |-> rows, created |-> created, raised |-> FALSE]
    ELSE LET d == Head(data) IN
         IF GetEntryByGuid(rows, f, d.guid) # <<>>
         THEN BulkLoop(rows, f, Tail(data), created)
         ELSE IF ~EntryIndexOk(rows, f, d.guid)
              THEN [rows |-> rows, created |-> created, raised |-> TRUE]
              ELSE BulkLoop(CreateEntry(rows, f, d), f, Tail(data),
                            Append(created, d))

RECURSIVE UpsertLoop(_, _, _, _)
UpsertLoop(rows, f, data, created) ==
    IF data = <<>> THEN [rows |-> rows, created |-> created, raised |-> FALSE]
    ELSE LET d == Head(data) IN
         IF GetEntryByGuid(rows, f, d.guid) # <<>>
         THEN UpsertLoop([rows EXCEPT ![<<f, d.guid>>] = <<d.pub>>], f, Tail(data),
                         created)
         ELSE UpsertLoop(CreateEntry(rows, f, d), f, Tail(data), Append(created, d))

\* a bulk insert that overwrites the row of a guid it finds stored
CreateEntriesBulkUpsert(rows, f, data) == UpsertLoop(rows, f, data, <<>>)

\* FeedRepository.create_entries_bulk: the rows afterwards, the list returned,
\* and whether an insert raised
CreateEntriesBulk(rows, f, data) == BulkLoop(rows, f, data, <<>>)

\* ------------------------------ repositories/subscription_repository.py
\* a table without the unique index
NoReceiptIndex(rcpts, p) == TRUE

\* the unique index ix_sent_entries_subscription_entry
ReceiptIndexOk(rcpts, p) == rcpts[p] = 0

\* ORDER BY published_at ASC
BeforeAscending(a, b) == a <= b

\* ORDER BY published_at DESC NULLS LAST: a may stand before b
Before(a, b) == IF a = 0 THEN b = 0 ELSE (b = 0 \/ a >= b)

\* the orders in which the rows of the keys in S may be returned
OrderedBy(rows, S) ==
    {q \in Perms(S) :
        \A i, j \in 1..Len(q) :
            i < j => Before(Head(rows[q[i]]), Head(rows[q[j]]))}

\* the query without its NOT IN (receipts) filter
AllStoredKeys(rows, rcpts, s) == {k \in Keys : k[1] = s[2] /\ rows[k] # <<>>}

\* SubscriptionRepository.get_unsent_entries_for_subscription: the keys of the
\* subscription's feed with no receipt for it
UnsentKeys(rows, rcpts, s) ==
    {k \in Keys : /\ k[1] = s[2]
                  /\ rows[k] # <<>>
                  /\ rcpts[<<s, k[2]>>] = 0}

GetUnsentEntries(rows, rcpts, subs, s, limit) ==
    IF subs[s] = NoRow THEN {<<>>}
    ELSE {Take(q, limit) : q \in OrderedBy(rows, UnsentKeys(rows, rcpts, s))}

\* ----------------------------------------------------- what a session sees
ViewEntries(l) == [k \in Keys |-> feed_entries[k] \o sess[l].entries[k]]
ViewReceipts(l) == [p \in Pairs |-> sent_entries[p] + sess[l].receipts[p]]

\* rows the other open sessions have inserted and not yet committed
HeldEntries(l) ==
    [k \in Keys |-> IF \E m \in Platforms \ {l} : sess[m].entries[k] # <<>>
                    THEN <<0>> ELSE <<>>]
HeldReceipts(l) ==
    [p \in Pairs |-> Cardinality({m \in Platforms \ {l} : sess[m].receipts[p] > 0})]

\* an insert under a unique key that another open session has inserted
\* cannot go through while that session is open
OthersHoldEntry(l, k) == ~EntryIndexOk(HeldEntries(l), k[1], k[2])
OthersHoldReceipt(l, p) == ~ReceiptIndexOk(HeldReceipts(l), p)

\* ------------------------------------------------- upstream documents
\* the published_at that item g carries upstream (0 is no date)
PubOf(g) == (g + 1) % (MaxPub + 1)

\* what a server may answer: a feed document listing the items published
\* so far, oldest first
Docs(f) == {[i \in 1..n |-> [guid |-> i, pub |-> PubOf(i)]] :
               n \in 0..Cardinality(GuidsOf(f))}

\* COMMIT of a session: its pending writes become the tables
Committed(l) ==
    /\ feeds' = [f \in FeedIds |-> ApplyFeedUpd(feeds[f], sess[l].feedUpd[f])]
    /\ feed_entries' = ViewEntries(l)
    /\ sent_entries' = ViewReceipts(l)
    /\ UNCHANGED subscriptions

\* ------------------------------------------------------------------ Init
\* no session open, no cycle begun, nothing recorded
InitLocals ==
    /\ sess = [l \in Platforms |-> EmptySession]
    /\ loaded = [l \in Platforms |-> [f \in FeedIds |-> NoRow]]
    /\ feedsTodo = [l \in Platforms |-> <<>>]
    /\ subsTodo = [l \in Platforms |-> <<>>]
    /\ cur = [l \in Platforms |-> NoSub]
    /\ todo = [l \in Platforms |-> <<>>]
    /\ cyc = [l \in Platforms |-> EmptyCycle]
    /\ retry = {}
    /\ delivered = [p \in Pairs |-> 0]
    /\ streak = [f \in FeedIds |-> 0]
    /\ bulkIn = <<>>
    /\ bulkRet = NoCall
    /\ bulkCalls = 0
    /\ handler = [h \in Handlers |-> Free]
    /\ cmdLog = <<>>
    /\ settings = [c \in Channels |-> NewSettings]
    /\ translation = NoTranslation
    /\ sentMessage = NoMessage
    /\ channelSubs = [k \in ChannelKeys |-> NoRow]
    /\ settingsCall = NoSettingsCall
    /\ now = 0
    /\ cache = <<>>
    /\ translating = [c \in Callers |-> NoTranslate]
    /\ translateLog = <<>>
    /\ changes = [k \in CacheKeys |-> 0]
    /\ semaphore = FetcherMaxConcurrent
    /\ fetching = [t \in FetchTasks |-> [pc |-> "idle", last |-> None]]
    /\ batch = NoBatch
    /\ jobs = [j \in JobIds |-> NoJob]
    /\ aged = NoneAged
    /\ lru = [op |-> NoCacheOp, recency |-> <<>>, written |-> <<>>]

\* the process at start: no adapter registered, no loop started, empty tables
\* but for feeds
InitButFeeds ==
    /\ adapters = {}
    /\ feed_entries = EmptyEntries
    /\ subscriptions = [s \in SubKeys |-> NoRow]
    /\ sent_entries = EmptyReceipts
    /\ pc = [l \in Platforms |-> "off"]
    /\ cyclesLeft = MaxCycles
    /\ faultsLeft = MaxFaults
    /\ validators = {0}
    /\ max_feeds_per_channel = 0
    /\ translator = FALSE
    /\ foreign_keys = FALSE
    /\ truncation = NoTruncation
    /\ backlog = NoBacklog
    /\ raising = FALSE
    /\ InitLocals

Init ==
    /\ feeds = [f \in FeedIds |-> NoRow]
    /\ InitButFeeds

\* --------------------------------------------------------------- actions
\* NewsFlowBot.on_ready / TelegramAdapter.start: register the adapter and
\* start a dispatch loop unless this adapter's own task is running
OnReady(p) ==
    /\ adapters' = adapters \cup {p}
    /\ pc' = IF pc[p] = "off" THEN [pc EXCEPT ![p] = "idle"] ELSE pc
    /\ UNCHANGED <<dbVars, sess, loaded, feedsTodo, subsTodo, cur, todo,
                   cyc, histVars, cyclesLeft, faultsLeft, bulkVars, confVars, svcVars, cmdVars, trVars>>

\* SubscriptionService.subscribe in a command handler's own session, which
\* the handler commits: add_feed, then get_or_create_subscription
Subscribe(p, f) ==
    /\ Cardinality({s \in SubKeys : subscriptions[s] # NoRow}) < MaxSubs
          \/ subscriptions[<<p, f>>] # NoRow
    /\ \/ /\ feeds[f] # NoRow
          /\ UNCHANGED <<feeds, feed_entries>>
          /\ subscriptions' = [subscriptions EXCEPT ![<<p, f>>] = [is_active |-> TRUE]]
       \/ /\ feeds[f] = NoRow
          /\ \E doc \in Docs(f) :
                LET r == CreateEntriesBulk(feed_entries, f, doc) IN
                \/ /\ doc # <<>>
                   /\ ~r.raised
                   /\ \E etag \in validators, last_modified \in validators :
                         feeds' = [feeds EXCEPT ![f] =
                            ApplyFeedUpd(NewFeed, UpdateFeedMetadata(etag, last_modified))]
                   /\ feed_entries' = r.rows
                   /\ subscriptions' =
                        [subscriptions EXCEPT ![<<p, f>>] = [is_active |-> TRUE]]
                \/ /\ doc = <<>>
                   /\ UNCHANGED <<feeds, feed_entries, subscriptions>>
    /\ UNCHANGED <<adapters, sent_entries, loopVars, histVars,
                   cyclesLeft, faultsLeft, bulkVars, confVars, svcVars, cmdVars, trVars>>

\* Dispatcher.dispatch_once up to get_all_active_feeds: a new session, the
\* active feeds loaded
BeginCycle(l) ==
    /\ pc[l] = "idle"
    /\ cyclesLeft > 0
    /\ cyclesLeft' = cyclesLeft - 1
    /\ pc' = [pc EXCEPT ![l] = "fetching"]
    /\ sess' = [sess EXCEPT ![l] = EmptySession]
    /\ loaded' = [loaded EXCEPT ![l] = feeds]
    /\ feedsTodo' = [feedsTodo EXCEPT ![l] =
                        FeedList({f \in FeedIds : feeds[f] # NoRow /\ feeds[f].is_active})]
    /\ subsTodo' = [subsTodo EXCEPT ![l] = <<>>]
    /\ cur' = [cur EXCEPT ![l] = NoSub]
    /\ todo' = [todo EXCEPT ![l] = <<>>]
    /\ cyc' = [cyc EXCEPT ![l] = EmptyCycle]
    /\ UNCHANGED <<adapters, dbVars, histVars, faultsLeft, bulkVars, confVars, svcVars, cmdVars, trVars>>

\* the except branch of dispatch_once: rollback, one error counted
Rollback(l) ==
    /\ pc' = [pc EXCEPT ![l] = "done"]
    /\ sess' = [sess EXCEPT ![l] = EmptySession]
    /\ cyc' = [cyc EXCEPT ![l].outcome = "rolledback"]

\* FeedService.fetch_and_store for the next feed of fetch_all_feeds.
\* The fetch did not succeed: mark_feed_error on the loaded object
FetchFails(l, f) ==
    /\ sess' = [sess EXCEPT ![l].feedUpd[f] = MarkError(loaded[l][f])]
    /\ cyc' = [cyc EXCEPT ![l].failedFeeds = @ \cup {f}]

\* 304 Not Modified, the answer to a request that carried If-None-Match or
\* If-Modified-Since: update_feed_metadata only
FetchNotModified(l, f) ==
    /\ loaded[l][f].etag # 0 \/ loaded[l][f].last_modified # 0
    /\ sess' = [sess EXCEPT ![l].feedUpd[f] = UpdateFeedMetadata(0, 0)]
    /\ cyc' = [cyc EXCEPT ![l].notModified = @ \cup {f}]

\* a parsed document: update_feed_metadata, then create_entries_bulk
FetchParsed(l, f, doc) ==
    LET r == CreateEntriesBulk(ViewEntries(l), f, doc) IN
    /\ ~r.raised
    /\ \A i \in 1..Len(r.created) : ~OthersHoldEntry(l, <<f, r.created[i].guid>>)
    /\ \E etag \in validators, last_modified \in validators :
          sess' = [sess EXCEPT
                  ![l].feedUpd[f] = UpdateFeedMetadata(etag, last_modified),
                  ![l].entries = [k \in Keys |->
                        SubSeq(r.rows[k], Len(feed_entries[k]) + 1, Len(r.rows[k]))]]
    /\ cyc' = [cyc EXCEPT
                  ![l].new = @ \cup {<<f, r.created[i].guid>> : i \in 1..Len(r.created)}]

\* an item of the document is being inserted by another open session: the
\* INSERT fails (lock timeout, or the other session commits first); the
\* handler's mark_feed_error then runs on the failed session and raises, which
\* ends fetch_all_feeds in dispatch_once's except branch
FetchConflict(l, f, doc) ==
    LET r == CreateEntriesBulk(ViewEntries(l), f, doc) IN
    /\ \E i \in 1..Len(r.created) : OthersHoldEntry(l, <<f, r.created[i].guid>>)
    /\ pc' = [pc EXCEPT ![l] = "done"]
    /\ sess' = [sess EXCEPT ![l] = EmptySession]
    /\ cyc' = [cyc EXCEPT ![l].outcome = "rolledback",
                          ![l].duplicates = @ \cup {f}]

FetchAndStore(l) ==
    /\ pc[l] = "fetching"
    /\ feedsTodo[l] # <<>>
    /\ LET f == Head(feedsTodo[l]) IN
          \/ /\ faultsLeft > 0
             /\ faultsLeft' = faultsLeft - 1
             /\ FetchFails(l, f)
             /\ feedsTodo' = [feedsTodo EXCEPT ![l] = Tail(@)]
             /\ UNCHANGED pc
          \/ /\ \/ FetchNotModified(l, f)
                \/ \E doc \in Docs(f) : FetchParsed(l, f, doc)
             /\ feedsTodo' = [feedsTodo EXCEPT ![l] = Tail(@)]
             /\ UNCHANGED <<pc, faultsLeft>>
          \/ /\ \E doc \in Docs(f) : FetchConflict(l, f, doc)
             /\ UNCHANGED <<feedsTodo, faultsLeft>>
    /\ UNCHANGED <<adapters, dbVars, loaded, subsTodo, cur, todo, histVars,
                   cyclesLeft, bulkVars, confVars, svcVars, cmdVars, trVars>>

\* FeedService.fetch_and_store when the UPDATE of update_feed_metadata raises
\* and leaves the session usable (SQLite's "database is locked" while another
\* connection writes): the except branch logs, calls mark_feed_error and
\* returns a failed FetchFeedResult
FetchStatementRaises(l) ==
    /\ pc[l] = "fetching"
    /\ feedsTodo[l] # <<>>
    /\ ~sess[l].broken
    /\ faultsLeft > 0
    /\ faultsLeft' = faultsLeft - 1
    /\ LET f == Head(feedsTodo[l]) IN
          /\ sess' = [sess EXCEPT ![l].feedUpd[f] = MarkError(loaded[l][f])]
          /\ cyc' = [cyc EXCEPT ![l].failedFeeds = @ \cup {f},
                                ![l].statementErrors = @ \cup {f}]
    /\ feedsTodo' = [feedsTodo EXCEPT ![l] = Tail(@)]
    /\ UNCHANGED <<adapters, dbVars, pc, loaded, subsTodo, cur, todo, histVars,
                   cyclesLeft, bulkVars, confVars, svcVars, cmdVars, trVars>>

\* a dispatch_once that goes on to the subscriptions while feeds are left to
\* fetch
CollateEarly(l) ==
    /\ pc[l] = "fetching"
    /\ \/ /\ cyc[l].new = {}
          /\ pc' = [pc EXCEPT ![l] = "done"]
          /\ sess' = [sess EXCEPT ![l] = EmptySession]
          /\ cyc' = [cyc EXCEPT ![l].outcome = "returned"]
          /\ UNCHANGED subsTodo
       \/ /\ cyc[l].new # {}
          /\ pc' = [pc EXCEPT ![l] = "sending"]
          /\ subsTodo' = [subsTodo EXCEPT ![l] =
                SubList({s \in SubKeys :
                          subscriptions[s] # NoRow /\ subscriptions[s].is_active})]
          /\ UNCHANGED <<sess, cyc>>
    /\ UNCHANGED <<adapters, dbVars, loaded, feedsTodo, cur, todo, histVars, cyclesLeft, faultsLeft, bulkVars, confVars, svcVars, cmdVars, trVars>>

\* dispatch_once after fetch_all_feeds: nothing new ends the cycle at once,
\* leaving the session block without a commit; otherwise the active
\* subscriptions are loaded
Collate(l) ==
    /\ pc[l] = "fetching"
    /\ feedsTodo[l] = <<>>
    /\ \/ /\ cyc[l].new = {}
          /\ pc' = [pc EXCEPT ![l] = "done"]
          /\ sess' = [sess EXCEPT ![l] = EmptySession]
          /\ cyc' = [cyc EXCEPT ![l].outcome = "returned"]
          /\ UNCHANGED subsTodo
       \/ /\ cyc[l].new # {}
          /\ pc' = [pc EXCEPT ![l] = "sending"]
          /\ subsTodo' = [subsTodo EXCEPT ![l] =
                SubList({s \in SubKeys :
                          subscriptions[s] # NoRow /\ subscriptions[s].is_active})]
          /\ UNCHANGED <<sess, cyc>>
    /\ UNCHANGED <<adapters, dbVars, loaded, feedsTodo, cur, todo, histVars, cyclesLeft, faultsLeft, bulkVars, confVars, svcVars, cmdVars, trVars>>

\* a flush that raises: the database transaction is rolled back and the
\* session refuses further statements until rollback() is called
FlushFailed == [EmptySession EXCEPT !.broken = TRUE]

\* Dispatcher._dispatch_to_subscription up to the query for unsent entries
StartSub(l) ==
    /\ pc[l] = "sending"
    /\ todo[l] = <<>>
    /\ subsTodo[l] # <<>>
    /\ LET s == Head(subsTodo[l]) IN
          \/ /\ s[1] \notin adapters
             /\ subsTodo' = [subsTodo EXCEPT ![l] = Tail(@)]
             /\ UNCHANGED <<pc, sess, cur, todo, cyc, faultsLeft>>
          \/ /\ s[1] \in adapters
             /\ sess[l].broken
             /\ Rollback(l)
             /\ UNCHANGED <<subsTodo, cur, todo, faultsLeft>>
          \/ /\ s[1] \in adapters
             /\ ~sess[l].broken
             /\ faultsLeft > 0
             /\ faultsLeft' = faultsLeft - 1
             /\ Rollback(l)
             /\ UNCHANGED <<subsTodo, cur, todo>>
          \/ /\ s[1] \in adapters
             /\ ~sess[l].broken
             /\ \E q \in GetUnsentEntries(ViewEntries(l), ViewReceipts(l),
                                          subscriptions, s, UnsentLimit) :
                   todo' = [todo EXCEPT ![l] =
                              [i \in 1..Len(q) |->
                                  [key |-> q[i], pub |-> Head(ViewEntries(l)[q[i]])]]]
             /\ cur' = [cur EXCEPT ![l] = s]
             /\ subsTodo' = [subsTodo EXCEPT ![l] = Tail(@)]
             /\ cyc' = [cyc EXCEPT
                          ![l].queried = @ \cup {s},
                          ![l].owed = @ \cup {<<s, g>> : g \in
                                {h \in GuidsOf(s[2]) :
                                    /\ ViewEntries(l)[<<s[2], h>>] # <<>>
                                    /\ ViewReceipts(l)[<<s, h>>] = 0}}]
             /\ UNCHANGED <<pc, sess, faultsLeft>>
    /\ UNCHANGED <<adapters, dbVars, loaded, feedsTodo, histVars,
                   cyclesLeft, bulkVars, confVars, svcVars, cmdVars, trVars>>

\* ------------------------------------------------ translation of messages
\* a text the provider has translated into language lang stands as lang; the
\* empty string and None are Python's
Some(text) == text # None /\ text # ""

\* a cache test that does not look at the language
CacheHitAnyLanguage(entry, target_language) == Some(entry.title_translated)

\* Dispatcher._translate_entry, its first test: the entry holds a title
\* translated into the language asked for
CacheHit(entry, target_language) ==
    /\ entry.translation_language = target_language
    /\ Some(entry.title_translated)

\* Dispatcher._create_message: the translated fields of the Message, tr being
\* what _translate_entry returns
CreateMessage(sub, entry, tr) ==
    [title_translated |-> IF sub.translate THEN tr.title ELSE entry.title_translated,
     summary_translated |-> IF sub.translate THEN tr.summary
                            ELSE entry.summary_translated]

\* FeedRepository.update_entry_translation as _translate_entry calls it
UpdateEntryTranslation(title, summary, language) ==
    [translation_language |-> language,
     title_translated |-> IF title = None THEN "" ELSE title,
     summary_translated |-> IF summary = None THEN "" ELSE summary]

\* Dispatcher._translate_entry: the pair it returns. The provider translates
\* the title and then the summary or fails to (okTitle, okSummary); a call that
\* raises ends the method with what it has, so a raise at the title is the
\* pair (FALSE, FALSE) and a raise at the summary is (okTitle, FALSE)
TranslateEntryAlways(entry, target_language, okTitle, okSummary) ==
    [title |-> target_language, summary |-> target_language]

TranslateEntry(entry, target_language, okTitle, okSummary) ==
    IF CacheHit(entry, target_language)
    THEN [title |-> entry.title_translated, summary |-> entry.summary_translated]
    ELSE IF ~translator THEN [title |-> None, summary |-> None]
    ELSE [title |-> IF okTitle THEN target_language ELSE None,
          summary |-> IF okSummary THEN target_language ELSE None]

\* what the provider can answer for one text: nothing is asked of it when no
\* translation service is configured
ProviderAnswers == IF translator THEN BOOLEAN ELSE {FALSE}

\* SubscriptionRepository.mark_entry_sent: add the SentEntry and flush
MarkEntrySent(l, p) ==
    IF sess[l].broken THEN sess[l]
    ELSE IF ~ReceiptIndexOk(ViewReceipts(l), p) THEN FlushFailed
    ELSE [sess[l] EXCEPT !.receipts[p] = @ + 1]

\* how composing and sending one entry can end: send_message returns true or
\* false, or _create_message or send_message raises
SendResults == IF raising THEN {"ok", "false", "raise"} ELSE {"ok", "false"}

\* a loop body that marks the entry sent whatever became of the send
AfterSendAlways(l, p, res) == MarkEntrySent(l, p)

\* the session after a send that did not return true: mark_entry_sent is
\* passed over, and the except branch only logs
AfterSend(l, p, res) == IF res = "ok" THEN MarkEntrySent(l, p) ELSE sess[l]

\* one round of the loop over entries in _dispatch_to_subscription: compose,
\* send, and on success mark the entry sent; an exception is caught here
SendEntry(l) ==
    /\ pc[l] = "sending"
    /\ todo[l] # <<>>
    /\ LET e == Head(todo[l])
           s == cur[l]
           p == <<s, e.key[2]>>
           \* the subscription has the settings it was created with and the
           \* entry no translation of an earlier cycle
           message(okTitle, okSummary) ==
               CreateMessage(NewSettings, NoTranslation,
                             TranslateEntry(NoTranslation, NewSettings.target_language,
                                            okTitle, okSummary))
       IN \E res \in SendResults, okTitle, okSummary \in ProviderAnswers :
            /\ cyc' = [cyc EXCEPT ![l].log =
                          Append(@, [sub |-> s, guid |-> e.key[2], pub |-> e.pub,
                                     res |-> res,
                                     okTitle |-> okTitle, okSummary |-> okSummary,
                                     title_translated |->
                                         message(okTitle, okSummary).title_translated,
                                     summary_translated |->
                                         message(okTitle, okSummary).summary_translated])]
            /\ \/ /\ res = "ok"
                  /\ delivered' = [delivered EXCEPT ![p] = Inc2(@)]
                  /\ \/ /\ ~OthersHoldReceipt(l, p)
                        /\ sess' = [sess EXCEPT ![l] = MarkEntrySent(l, p)]
                        /\ UNCHANGED faultsLeft
                     \/ /\ OthersHoldReceipt(l, p)
                        /\ sess' = [sess EXCEPT ![l] =
                                      IF sess[l].broken THEN @ ELSE FlushFailed]
                        /\ UNCHANGED faultsLeft
                     \/ /\ faultsLeft > 0
                        /\ ~sess[l].broken
                        /\ faultsLeft' = faultsLeft - 1
                        /\ sess' = [sess EXCEPT ![l] = FlushFailed]
               \/ /\ res # "ok"
                  /\ faultsLeft > 0
                  /\ faultsLeft' = faultsLeft - 1
                  /\ sess' = [sess EXCEPT ![l] = AfterSend(l, p, res)]
                  /\ UNCHANGED delivered
    /\ todo' = [todo EXCEPT ![l] = Tail(@)]
    /\ UNCHANGED <<adapters, dbVars, pc, loaded, feedsTodo, subsTodo, cur,
                   retry, streak, cyclesLeft, bulkVars, confVars, svcVars, cmdVars, trVars>>

\* the pairs a cycle's log names: all, those sent with success, those whose
\* send returned false or raised
TriedPairs(log) == {<<log[i].sub, log[i].guid>> : i \in 1..Len(log)}
OkPairs(log) == {<<log[i].sub, log[i].guid>> :
                    i \in {j \in 1..Len(log) : log[j].res = "ok"}}
FailedPairs(log) == {<<log[i].sub, log[i].guid>> :
                        i \in {j \in 1..Len(log) : log[j].res # "ok"}}

\* the end of dispatch_once's try block: session.commit(), or the except
\* branch when the commit raises
Commit(l) ==
    /\ pc[l] = "sending"
    /\ todo[l] = <<>>
    /\ subsTodo[l] = <<>>
    /\ \/ /\ ~sess[l].broken
          /\ Committed(l)
          /\ pc' = [pc EXCEPT ![l] = "done"]
          /\ sess' = [sess EXCEPT ![l] = EmptySession]
          /\ cyc' = [cyc EXCEPT ![l].outcome = "committed"]
          /\ UNCHANGED faultsLeft
       \/ /\ sess[l].broken
          /\ Rollback(l)
          /\ UNCHANGED <<dbVars, faultsLeft>>
       \/ /\ ~sess[l].broken
          /\ faultsLeft > 0
          /\ faultsLeft' = faultsLeft - 1
          /\ Rollback(l)
          /\ UNCHANGED dbVars
    /\ UNCHANGED <<adapters, loaded, feedsTodo, subsTodo, cur, todo, retry,
                   delivered, streak, cyclesLeft, bulkVars, confVars, svcVars, cmdVars, trVars>>


\* the feeds fetch_all_feeds has called fetch_and_store for in loop l's cycle
Fetched(l) ==
    {f \in FeedIds : /\ loaded[l][f] # NoRow
                     /\ loaded[l][f].is_active
                     /\ \A i \in 1..Len(feedsTodo[l]) : feedsTodo[l][i] # f}

\* Dispatcher.run_dispatch_loop after dispatch_once has returned: log, sleep
Sleep(l) ==
    /\ pc[l] = "done"
    /\ pc' = [pc EXCEPT ![l] = "idle"]
    /\ retry' = FailedPairs(cyc[l].log)
    /\ streak' = [f \in FeedIds |->
                    IF f \in cyc[l].failedFeeds THEN IncTo(streak[f], ErrorThreshold)
                    ELSE IF f \in Fetched(l) THEN 0
                    ELSE streak[f]]
    /\ cyc' = [cyc EXCEPT ![l] = EmptyCycle]
    /\ loaded' = [loaded EXCEPT ![l] = [f \in FeedIds |-> NoRow]]
    /\ cur' = [cur EXCEPT ![l] = NoSub]
    /\ UNCHANGED <<adapters, dbVars, sess, feedsTodo, subsTodo, todo, delivered,
                   cyclesLeft, faultsLeft, bulkVars, confVars, svcVars, cmdVars, trVars>>

Next ==
    \/ \E p \in Platforms : OnReady(p)
    \/ \E s \in SubKeys : Subscribe(s[1], s[2])
    \/ \E l \in Platforms : BeginCycle(l)
    \/ \E l \in Platforms : FetchAndStore(l)
    \/ \E l \in Platforms : Collate(l)
    \/ \E l \in Platforms : StartSub(l)
    \/ \E l \in Platforms : SendEntry(l)
    \/ \E l \in Platforms : Commit(l)
    \/ \E l \in Platforms : Sleep(l)

Spec == Init /\ [][Next]_vars

\* ------------------------------------------ create_entries_bulk on its own
\* the entry data a caller may pass for feed f: any items of the feed, in any
\* order, repetitions included
BulkData(f) ==
    UNION {[1..n -> {i \in Items : i.guid \in GuidsOf(f) /\ i.pub > 0}] :
              n \in 0..MaxBulkLen}

\* one call of FeedRepository.create_entries_bulk(feed_id, entries_data)
BulkCall(f, data) ==
    /\ bulkCalls < MaxBulkCalls
    /\ bulkCalls' = bulkCalls + 1
    /\ bulkIn' = bulkIn \o [i \in 1..Len(bulkRet.data) |->
                               [feed |-> bulkRet.feed, guid |-> bulkRet.data[i].guid,
                                pub |-> bulkRet.data[i].pub]]
    /\ LET r == CreateEntriesBulk(feed_entries, f, data) IN
          /\ feed_entries' = r.rows
          /\ bulkRet' = [feed |-> f, data |-> data,
                         created |-> r.created, raised |-> r.raised]
    /\ UNCHANGED <<adapters, feeds, subscriptions, sent_entries, loopVars,
                   histVars, cyclesLeft, faultsLeft, confVars, svcVars, cmdVars, trVars>>

InitBulk ==
    /\ feeds = [f \in FeedIds |-> NewFeed]
    /\ InitButFeeds

NextBulk == \E f \in FeedIds : \E data \in BulkData(f) : BulkCall(f, data)

SpecBulk == InitBulk /\ [][NextBulk]_vars

\* ------------------------------------------- feeds that fail for a long time
\* A deployment that has run for a while: every feed is stored with a channel
\* subscribed to it, and what is stored has been sent. Upstream has nothing
\* new for feed 1; each other feed has stored its first item only.
SeenEntries == [k \in Keys |-> IF k[1] = 1 \/ k[2] = 1 THEN <<PubOf(k[2])>> ELSE <<>>]
SeenReceipts == [p \in Pairs |-> Len(SeenEntries[<<p[1][2], p[2]>>])]

\* cycles enough for a feed to fail ErrorThreshold times in a row and be
\* looked at once more
LongRun == ErrorThreshold + 1

\* feed 1 after n failed fetches in a row, each stored by mark_error
FailedTimes(n) == [NewFeed EXCEPT !.is_active = n < ErrorThreshold,
                           !.error_count = n, !.last_error = n > 0]

InitErr ==
    /\ feed_entries = SeenEntries
    /\ subscriptions = [s \in SubKeys |-> [is_active |-> TRUE]]
    /\ sent_entries = SeenReceipts
    /\ validators = {0}
    /\ max_feeds_per_channel = 0
    /\ translator = FALSE
    /\ foreign_keys = FALSE
    /\ truncation = NoTruncation
    /\ backlog = NoBacklog
    /\ raising = FALSE
    /\ InitLocals
    /\ \/ \* one loop, feed 1 healthy so far, failures enough to reach the threshold
          /\ adapters = {"discord"}
          /\ pc = [l \in Platforms |-> IF l = "discord" THEN "idle" ELSE "off"]
          /\ feeds = [f \in FeedIds |-> NewFeed]
          /\ cyclesLeft = LongRun
          /\ faultsLeft = ErrorThreshold
       \/ \* both loops, feed 1 one failure short of the threshold
          /\ adapters = Platforms
          /\ pc = [l \in Platforms |-> "idle"]
          /\ feeds = [f \in FeedIds |-> IF f = 1 THEN FailedTimes(ErrorThreshold - 1)
                                        ELSE NewFeed]
          /\ cyclesLeft = MaxCycles
          /\ faultsLeft = MaxFaults

NextErr ==
    \/ \E l \in Platforms : BeginCycle(l)
    \/ \E l \in Platforms : FetchAndStore(l)
    \/ \E l \in Platforms : Collate(l)
    \/ \E l \in Platforms : StartSub(l)
    \/ \E l \in Platforms : SendEntry(l)
    \/ \E l \in Platforms : Commit(l)
    \/ \E l \in Platforms : Sleep(l)

SpecErr == InitErr /\ [][NextErr]_vars

\* ------------------------------------------------ feeds with cache validators
\* As above with one loop, feed 1 stored with any validators, and an upstream
\* that sends validators with its documents
InitCache ==
    /\ adapters = {"discord"}
    /\ pc = [l \in Platforms |-> IF l = "discord" THEN "idle" ELSE "off"]
    /\ \E etag \in Tags, last_modified \in Tags :
          feeds = [f \in FeedIds |->
                      IF f = 1 THEN [NewFeed EXCEPT !.etag = etag,
                                                    !.last_modified = last_modified]
                      ELSE NewFeed]
    /\ feed_entries = SeenEntries
    /\ subscriptions = [s \in SubKeys |-> [is_active |-> TRUE]]
    /\ sent_entries = SeenReceipts
    /\ cyclesLeft = MaxCycles
    /\ faultsLeft = MaxFaults
    /\ validators = Tags
    /\ max_feeds_per_channel = 0
    /\ translator = FALSE
    /\ foreign_keys = FALSE
    /\ truncation = NoTruncation
    /\ backlog = NoBacklog
    /\ raising = FALSE
    /\ InitLocals

SpecCache == InitCache /\ [][NextErr]_vars

\* ------------------------------------------ dispatch with a translation service
\* One loop with a translation service configured, right after the channel has
\* subscribed to every feed: what add_feed stored has not been sent yet
InitSendTr ==
    /\ adapters = {"discord"}
    /\ pc = [l \in Platforms |-> IF l = "discord" THEN "idle" ELSE "off"]
    /\ feeds = [f \in FeedIds |-> NewFeed]
    /\ feed_entries = SeenEntries
    /\ subscriptions = [s \in SubKeys |-> [is_active |-> TRUE]]
    /\ sent_entries = EmptyReceipts
    /\ cyclesLeft = MaxCycles
    /\ faultsLeft = MaxFaults
    /\ validators = {0}
    /\ max_feeds_per_channel = 0
    /\ translator = TRUE
    /\ foreign_keys = FALSE
    /\ truncation = NoTruncation
    /\ backlog = NoBacklog
    /\ raising = FALSE
    /\ InitLocals

SpecSendTr == InitSendTr /\ [][NextErr]_vars

\* --------------------------------------------- statements that raise
\* The loop of SpecSendTr on a database whose statements can raise without
\* ending the transaction
NextDb ==
    \/ NextErr
    \/ \E l \in Platforms : FetchStatementRaises(l)

SpecDb == InitSendTr /\ [][NextDb]_vars

\* ------------------------------------------ composing and sending that raise
\* The loop of SpecSendTr in a process where _create_message or send_message
\* can raise
InitRaise ==
    /\ adapters = {"discord"}
    /\ pc = [l \in Platforms |-> IF l = "discord" THEN "idle" ELSE "off"]
    /\ feeds = [f \in FeedIds |-> NewFeed]
    /\ feed_entries = SeenEntries
    /\ subscriptions = [s \in SubKeys |-> [is_active |-> TRUE]]
    /\ sent_entries = EmptyReceipts
    /\ cyclesLeft = MaxCycles
    /\ faultsLeft = MaxFaults
    /\ validators = {0}
    /\ max_feeds_per_channel = 0
    /\ translator = TRUE
    /\ foreign_keys = FALSE
    /\ truncation = NoTruncation
    /\ backlog = NoBacklog
    /\ raising = TRUE
    /\ InitLocals

SpecRaise == InitRaise /\ [][NextErr]_vars

\* ------------------------------------------------------------ truncate_text
\* the default of the parameter suffix
suffix == <<".", ".", ".">>

\* text[:n] for n >= 0
Slice(text, n) == SubSeq(text, 1, IF n < Len(text) THEN n ELSE Len(text))

\* str.rfind(" "): the index, from 0, of the last space, or -1
RFindSpace(text) ==
    LET at == {i \in 1..Len(text) : text[i] = " "}
    IN IF at = {} THEN -1 ELSE (CHOOSE i \in at : \A j \in at : j <= i) - 1

RECURSIVE RStrip(_)
\* str.rstrip()
RStrip(text) ==
    IF text # <<>> /\ text[Len(text)] = " "
    THEN RStrip(SubSeq(text, 1, Len(text) - 1))
    ELSE text

\* a truncate_text that does not leave room for the suffix
TruncateTextNoRoom(text, max_length) ==
    IF Len(text) <= max_length THEN text
    ELSE RStrip(Slice(text, max_length)) \o suffix

\* truncate_text(text, max_length); last_space > truncate_at * 0.7 is
\* compared in tenths
TruncateText(text, max_length) ==
    IF Len(text) <= max_length THEN text
    ELSE LET truncate_at == max_length - Len(suffix)
             truncated == Slice(text, truncate_at)
             last_space == RFindSpace(truncated)
         IN IF truncate_at <= 0 THEN Slice(suffix, max_length)
            ELSE RStrip(IF 10 * last_space > 7 * truncate_at
                        THEN Slice(truncated, last_space)
                        ELSE truncated) \o suffix

\* the call returns
TruncateTextReturns ==
    /\ truncation.state = "called"
    /\ truncation' = [truncation EXCEPT
                         !.result = TruncateText(truncation.text, truncation.max_length),
                         !.state = "returned"]
    /\ UNCHANGED <<coreVars, notTruncation>>

\* truncate_text is called with any text and any max_length from 0
InitTruncate ==
    /\ adapters = {}
    /\ feeds = [f \in FeedIds |-> NoRow]
    /\ feed_entries = EmptyEntries
    /\ subscriptions = [s \in SubKeys |-> NoRow]
    /\ sent_entries = EmptyReceipts
    /\ pc = [l \in Platforms |-> "off"]
    /\ cyclesLeft = 0
    /\ faultsLeft = 0
    /\ validators = {0}
    /\ max_feeds_per_channel = 0
    /\ translator = FALSE
    /\ foreign_keys = FALSE
    /\ \E text \in TextsUpTo(MaxTextLen), max_length \in 0..MaxLength :
          truncation = [text |-> text, max_length |-> max_length, result |-> <<>>,
                        state |-> "called"]
    /\ backlog = NoBacklog
    /\ raising = FALSE
    /\ InitLocals

SpecTruncate == InitTruncate /\ [][TruncateTextReturns]_vars

\* ------------------------------------------------ the translation service
\* str.strip() leaves nothing
Blank(text) == text = "" \/ text = " "

Truthy(value) == value # NoText /\ value # EmptyText

\* TranslationProvider.translate: failure, or success with some text
ProviderResults(text, target_lang) ==
    {[success |-> FALSE, translated_text |-> NoText],
     [success |-> TRUE, translated_text |-> EmptyText]} \cup
    {[success |-> TRUE, translated_text |-> Wording(text, target_lang, v)] :
        v \in 1..2}

Positions(c, key) == {i \in 1..Len(c) : c[i].key = key}

Without(c, key) == SelectSeq(c, LAMBDA e : e.key # key)

\* an entry set without ttl has expires_at None, here -1
Expired(e, t) == e.expires_at >= 0 /\ t > e.expires_at

\* a get that leaves the order of the keys as it is
CacheGetInPlace(c, key, t) ==
    IF Positions(c, key) = {} THEN [value |-> NoText, cache |-> c, changed |-> {}]
    ELSE LET e == c[CHOOSE i \in Positions(c, key) : TRUE]
         IN IF Expired(e, t)
            THEN [value |-> NoText, cache |-> Without(c, key), changed |-> {key}]
            ELSE [value |-> e.value, cache |-> c, changed |-> {}]

\* MemoryCache.get at time t: the value or NoText, and the cache afterwards
CacheGet(c, key, t) ==
    IF Positions(c, key) = {} THEN [value |-> NoText, cache |-> c, changed |-> {}]
    ELSE LET e == c[CHOOSE i \in Positions(c, key) : TRUE]
         IN IF Expired(e, t)
            THEN [value |-> NoText, cache |-> Without(c, key), changed |-> {key}]
            ELSE [value |-> e.value, cache |-> Append(Without(c, key), e),
                  changed |-> {}]

\* a set that stores nothing
CacheSetNothing(c, key, value, t) == [cache |-> c, changed |-> {}]

\* MemoryCache.set at time t with ttl = cache_ttl
CacheSet(c, key, value, t) ==
    LET rest == Without(c, key)
        over == IF Len(rest) >= CacheMaxSize THEN Len(rest) - CacheMaxSize + 1 ELSE 0
    IN [cache |-> Append(SubSeq(rest, over + 1, Len(rest)),
                         [key |-> key, value |-> value, expires_at |-> t + CacheTtl]),
        changed |-> {key} \cup {rest[i].key : i \in 1..over}]

Changed(keys) == [k \in CacheKeys |-> IF k \in keys THEN changes[k] + 1 ELSE changes[k]]

Returned(c, text, target_lang, began, changesAtGet, result, from_cache, provider, ev) ==
    Append(translateLog,
           [caller |-> c, text |-> text, target_lang |-> target_lang,
            success |-> result.success, translated_text |-> result.translated_text,
            from_cache |-> from_cache, provider |-> provider, began |-> began,
            changesAtGet |-> changesAtGet,
            changesAtReturn |-> ev[CacheKey(text, target_lang)]])

InFlight == Cardinality({c \in Callers : translating[c].pc # "free"})

\* TranslationService.translate up to its call of the provider: a blank text
\* and a cache hit return at once
TranslateBegin(c, text, target_lang) ==
    /\ translating[c].pc = "free"
    /\ Len(translateLog) + InFlight < MaxTranslateCalls
    /\ LET key == CacheKey(text, target_lang)
           got == CacheGet(cache, key, now)
           began == Len(translateLog)
       IN IF Blank(text)
          THEN /\ translateLog' = Returned(c, text, target_lang, began, changes[key],
                                           [success |-> TRUE,
                                            translated_text |-> EmptyText],
                                           FALSE, FALSE, changes)
               /\ UNCHANGED <<cache, translating, changes>>
          ELSE /\ cache' = got.cache
               /\ changes' = Changed(got.changed)
               /\ IF Truthy(got.value)
                  THEN /\ translateLog' =
                             Returned(c, text, target_lang, began, changes'[key],
                                      [success |-> TRUE, translated_text |-> got.value],
                                      TRUE, FALSE, changes')
                       /\ UNCHANGED translating
                  ELSE /\ translating' =
                             [translating EXCEPT ![c] =
                                 [pc |-> "provider", text |-> text,
                                  target_lang |-> target_lang, began |-> began,
                                  changesAtGet |-> changes'[key]]]
                       /\ UNCHANGED translateLog
    /\ UNCHANGED <<coreVars, notCache, now>>

\* the provider answers; a successful answer with text is cached and the
\* result returned
TranslateEnd(c) ==
    /\ translating[c].pc = "provider"
    /\ LET t == translating[c]
           key == CacheKey(t.text, t.target_lang)
       IN \E result \in ProviderResults(t.text, t.target_lang) :
             LET put == IF result.success /\ Truthy(result.translated_text)
                        THEN CacheSet(cache, key, result.translated_text, now)
                        ELSE [cache |-> cache, changed |-> {}]
             IN /\ cache' = put.cache
                /\ changes' = Changed(put.changed)
                /\ translateLog' = Returned(c, t.text, t.target_lang, t.began,
                                            t.changesAtGet, result, FALSE, TRUE,
                                            changes')
    /\ translating' = [translating EXCEPT ![c] = NoTranslate]
    /\ UNCHANGED <<coreVars, notCache, now>>

\* time passes
Tick ==
    /\ now < MaxClock
    /\ now' = now + 1
    /\ UNCHANGED <<coreVars, notCache, cache, translating, translateLog, changes>>

InitTranslate ==
    /\ adapters = {}
    /\ feeds = [f \in FeedIds |-> NoRow]
    /\ feed_entries = EmptyEntries
    /\ subscriptions = [s \in SubKeys |-> NoRow]
    /\ sent_entries = EmptyReceipts
    /\ pc = [l \in Platforms |-> "off"]
    /\ cyclesLeft = 0
    /\ faultsLeft = 0
    /\ validators = {0}
    /\ max_feeds_per_channel = 0
    /\ translator = TRUE
    /\ foreign_keys = FALSE
    /\ truncation = NoTruncation
    /\ backlog = NoBacklog
    /\ raising = FALSE
    /\ InitLocals

NextTranslate ==
    \/ \E c \in Callers, text \in Texts, target_lang \in TargetLangs :
          TranslateBegin(c, text, target_lang)
    \/ \E c \in Callers : TranslateEnd(c)
    \/ Tick

SpecTranslate == InitTranslate /\ [][NextTranslate]_vars

\* ------------------------------------------------ the MemoryCache on its own
\* MemoryCache.set with any ttl; 0 stands for ttl = None
CacheSetTtl(c, key, value, ttl, t) ==
    LET rest == Without(c, key)
        over == IF Len(rest) >= CacheMaxSize THEN Len(rest) - CacheMaxSize + 1 ELSE 0
    IN [cache |-> Append(SubSeq(rest, over + 1, Len(rest)),
                         [key |-> key, value |-> value,
                          expires_at |-> IF ttl > 0 THEN t + ttl ELSE -1]),
        evicted |-> {rest[i].key : i \in 1..over}]

\* MemoryCache.exists: whether the key is held, and the cache afterwards
CacheExists(c, key, t) ==
    IF Positions(c, key) = {} THEN [value |-> FALSE, cache |-> c]
    ELSE IF Expired(c[CHOOSE i \in Positions(c, key) : TRUE], t)
    THEN [value |-> FALSE, cache |-> Without(c, key)]
    ELSE [value |-> TRUE, cache |-> c]

\* the key counts as used now
Used(key) == Append(SelectSeq(lru.recency, LAMBDA k : k # key), key)

MemoryCacheGet(key) ==
    /\ LET got == CacheGet(cache, key, now) IN
          /\ cache' = got.cache
          /\ lru' = [op |-> [name |-> "get", key |-> key, evicted |-> {}],
                     recency |-> IF got.value # NoText THEN Used(key) ELSE lru.recency,
                     written |-> lru.written]
    /\ UNCHANGED <<coreVars, notLru, now>>

MemoryCacheSet(key, ttl) ==
    /\ LET put == CacheSetTtl(cache, key, Wording("a", "en", 1), ttl, now) IN
          /\ cache' = put.cache
          /\ lru' = [op |-> [name |-> "set", key |-> key, evicted |-> put.evicted],
                     recency |-> Used(key),
                     written |-> Append(SelectSeq(lru.written, LAMBDA k : k # key),
                                        key)]
    /\ UNCHANGED <<coreVars, notLru, now>>

MemoryCacheDelete(key) ==
    /\ cache' = Without(cache, key)
    /\ lru' = [lru EXCEPT !.op = [name |-> "delete", key |-> key, evicted |-> {}]]
    /\ UNCHANGED <<coreVars, notLru, now>>

MemoryCacheExists(key) ==
    /\ cache' = CacheExists(cache, key, now).cache
    /\ lru' = [lru EXCEPT !.op = [name |-> "exists", key |-> key, evicted |-> {}]]
    /\ UNCHANGED <<coreVars, notLru, now>>

MemoryCacheClear ==
    /\ cache' = <<>>
    /\ lru' = [lru EXCEPT !.op = [name |-> "clear", key |-> None, evicted |-> {}]]
    /\ UNCHANGED <<coreVars, notLru, now>>

NextMemoryCache ==
    \/ \E key \in LruKeys : MemoryCacheGet(key)
    \/ \E key \in LruKeys, ttl \in 0..CacheTtl : MemoryCacheSet(key, ttl)
    \/ \E key \in LruKeys : MemoryCacheDelete(key)
    \/ \E key \in LruKeys : MemoryCacheExists(key)
    \/ MemoryCacheClear
    \/ Tick

SpecMemoryCache == InitTranslate /\ [][NextMemoryCache]_vars

\* ------------------------------------------------------ the feed fetcher
\* how a fetch ends: _do_fetch returns a successful or a failed FetchResult,
\* or raises
FetchOutcomes == {"success", "failure", "raise"}

\* a fetcher that gives its permit back only after a successful fetch
ReleaseOnSuccess(value, outcome) == IF outcome = "success" THEN value + 1 ELSE value

\* asyncio.Semaphore.release at the end of "async with self._semaphore"
Release(value, outcome) == value + 1

InFlightFetches == {t \in FetchTasks : fetching[t].pc = "fetching"}

\* fetch_feed is called: the semaphore is acquired at once when it has a
\* permit, else the task waits
FetchFeedCall(t) ==
    /\ fetching[t].pc = "idle"
    /\ IF semaphore > 0
       THEN /\ semaphore' = semaphore - 1
            /\ fetching' = [fetching EXCEPT ![t].pc = "fetching"]
       ELSE /\ fetching' = [fetching EXCEPT ![t].pc = "waiting"]
            /\ UNCHANGED semaphore
    /\ UNCHANGED <<coreVars, notFetcher>>

\* a waiting task is woken after a release and takes the permit
FetchFeedAcquire(t) ==
    /\ fetching[t].pc = "waiting"
    /\ semaphore > 0
    /\ semaphore' = semaphore - 1
    /\ fetching' = [fetching EXCEPT ![t].pc = "fetching"]
    /\ UNCHANGED <<coreVars, notFetcher>>

\* _do_fetch ends and the "async with" block is left
FetchFeedEnd(t, outcome) ==
    /\ fetching[t].pc = "fetching"
    /\ semaphore' = Release(semaphore, outcome)
    /\ fetching' = [fetching EXCEPT ![t] = [pc |-> "idle", last |-> outcome]]
    /\ UNCHANGED <<coreVars, notFetcher>>

NextFetcher ==
    \/ \E t \in FetchTasks : FetchFeedCall(t)
    \/ \E t \in FetchTasks : FetchFeedAcquire(t)
    \/ \E t \in FetchTasks, outcome \in FetchOutcomes : FetchFeedEnd(t, outcome)

SpecFetcher == Init /\ [][NextFetcher]_vars

\* --------------------------------------------------------- translate_batch
\* the lists of texts translate_batch is called with
Batches == UNION {[1..n -> {"a", "b"}] : n \in 0..MaxBatch}

NoResult == [of |-> None, success |-> FALSE]

\* a gather that hands the results back in the order they arrived
GatherAsCompleted(results, completed) ==
    [i \in 1..Len(results) |-> results[completed[i]]]

\* asyncio.gather: the results in the order of the awaitables it was given
Gather(results, completed) == [i \in 1..Len(results) |-> results[i]]

Running(b) == {i \in 1..Len(b.texts) : b.pc[i] = "running"}

\* translate_batch is called: an empty list returns at once, else a semaphore
\* and one translate_with_limit task per text are made
TranslateBatchCall(texts) ==
    /\ batch.state # "running"
    /\ batch' = IF texts = <<>>
                THEN [NoBatch EXCEPT !.state = "returned"]
                ELSE [texts |-> texts,
                      pc |-> [i \in 1..Len(texts) |-> "waiting"],
                      results |-> [i \in 1..Len(texts) |-> NoResult],
                      completed |-> <<>>,
                      semaphore |-> BatchMaxConcurrent,
                      returned |-> <<>>, state |-> "running"]
    /\ UNCHANGED <<coreVars, notBatch>>

\* a task enters "async with semaphore" and calls translate
BatchAcquire(i) ==
    /\ batch.state = "running"
    /\ i \in 1..Len(batch.texts)
    /\ batch.pc[i] = "waiting"
    /\ batch.semaphore > 0
    /\ batch' = [batch EXCEPT !.pc[i] = "running", !.semaphore = @ - 1]
    /\ UNCHANGED <<coreVars, notBatch>>

\* a task's translate returns and the task leaves the block
BatchTranslated(i, success) ==
    /\ batch.state = "running"
    /\ i \in 1..Len(batch.texts)
    /\ batch.pc[i] = "running"
    /\ batch' = [batch EXCEPT !.pc[i] = "done", !.semaphore = @ + 1,
                              !.results[i] = [of |-> batch.texts[i],
                                              success |-> success],
                              !.completed = Append(@, i)]
    /\ UNCHANGED <<coreVars, notBatch>>

\* all tasks are done: gather returns and translate_batch with it
TranslateBatchReturn ==
    /\ batch.state = "running"
    /\ \A i \in 1..Len(batch.texts) : batch.pc[i] = "done"
    /\ batch' = [batch EXCEPT !.returned = Gather(batch.results, batch.completed),
                              !.state = "returned"]
    /\ UNCHANGED <<coreVars, notBatch>>

NextBatch ==
    \/ \E texts \in Batches : TranslateBatchCall(texts)
    \/ \E i \in 1..MaxBatch : BatchAcquire(i)
    \/ \E i \in 1..MaxBatch, success \in BOOLEAN : BatchTranslated(i, success)
    \/ TranslateBatchReturn

SpecBatch == Init /\ [][NextBatch]_vars

\* ---------------------------------------------------------- the scheduler
\* the arguments TaskScheduler.add_job passes to AsyncIOScheduler.add_job
max_instances == 1
coalesce == TRUE

\* a scheduler that hands every due run time to the executor
RunTimesAll(due, merge) == due

\* the run times the scheduler hands to the executor when it processes a job
\* with due run times: the last one only when the job coalesces
RunTimes(due, merge) == IF merge /\ due > 0 THEN 1 ELSE due

\* TaskScheduler.add_job: a job under this id is removed and the job added;
\* an instance that is running goes on
AddJob(j) ==
    /\ jobs' = [jobs EXCEPT ![j].scheduled = TRUE, ![j].due = 0]
    /\ UNCHANGED <<coreVars, notJobs>>

\* TaskScheduler.remove_job
RemoveJob(j) ==
    /\ jobs[j].scheduled
    /\ jobs' = [jobs EXCEPT ![j].scheduled = FALSE, ![j].due = 0]
    /\ UNCHANGED <<coreVars, notJobs>>

\* a run time of the job's IntervalTrigger passes
JobTick(j) ==
    /\ jobs[j].scheduled
    /\ jobs[j].due < MaxDue
    /\ jobs' = [jobs EXCEPT ![j].due = @ + 1]
    /\ UNCHANGED <<coreVars, notJobs>>

\* the scheduler wakes and processes the job: its due run times are handed to
\* the executor, which refuses them when max_instances instances are running
\* and else starts one instance that calls func once per run time
JobProcess(j) ==
    /\ jobs[j].scheduled
    /\ jobs[j].due > 0
    /\ LET run_times == RunTimes(jobs[j].due, coalesce)
       IN jobs' = [jobs EXCEPT
                     ![j] = IF jobs[j].instances >= max_instances
                            THEN [@ EXCEPT !.due = 0, !.skipped = TRUE]
                            ELSE [@ EXCEPT !.due = 0, !.instances = @ + 1,
                                           !.calls = run_times,
                                           !.merged = @ \/ jobs[j].due > 1,
                                           !.started = IncTo(@, MaxStarted)]]
    /\ UNCHANGED <<coreVars, notJobs>>

\* the running instance has made its calls of func and ends
JobEnds(j) ==
    /\ jobs[j].instances > 0
    /\ jobs' = [jobs EXCEPT ![j].instances = @ - 1, ![j].calls = 0]
    /\ UNCHANGED <<coreVars, notJobs>>

NextJobs ==
    \/ \E j \in JobIds : AddJob(j)
    \/ \E j \in JobIds : RemoveJob(j)
    \/ \E j \in JobIds : JobTick(j)
    \/ \E j \in JobIds : JobProcess(j)
    \/ \E j \in JobIds : JobEnds(j)

SpecJobs == Init /\ [][NextJobs]_vars

\* ------------------------------------------- subscribe and unsubscribe commands
\* FeedFetcher.fetch_feed for a URL: a failure, or the entries of a document
FetchResults(f) ==
    {[success |-> FALSE, entries |-> <<>>]} \cup
    {[success |-> TRUE, entries |-> doc] : doc \in Docs(f)}

\* an add_feed that creates the feed row before it looks at the fetch result
AddFeedCreatesFirst(fs, es, f, res, etag, last_modified) ==
    [success |-> fs[f] # NoRow \/ (res.success /\ res.entries # <<>>),
     message |-> IF fs[f] # NoRow THEN "Feed already exists"
                 ELSE IF ~res.success THEN "Failed to fetch feed"
                 ELSE IF res.entries = <<>> THEN "Feed has no entries"
                 ELSE "Feed added",
     feeds |-> IF fs[f] # NoRow THEN fs ELSE [fs EXCEPT ![f] = NewFeed],
     entries |-> es]

\* FeedService.add_feed on the tables fs, es a session sees, for the URL of
\* feed f, with the fetch result and the validators of the response
AddFeed(fs, es, f, res, etag, last_modified) ==
    IF fs[f] # NoRow
    THEN [success |-> TRUE, message |-> "Feed already exists",
          feeds |-> fs, entries |-> es]
    ELSE IF ~res.success
    THEN [success |-> FALSE, message |-> "Failed to fetch feed",
          feeds |-> fs, entries |-> es]
    ELSE IF res.entries = <<>>
    THEN [success |-> FALSE, message |-> "Feed has no entries",
          feeds |-> fs, entries |-> es]
    ELSE [success |-> TRUE, message |-> "Feed added",
          feeds |-> [fs EXCEPT ![f] =
                        ApplyFeedUpd(NewFeed, UpdateFeedMetadata(etag, last_modified))],
          entries |-> CreateEntriesBulk(es, f, res.entries).rows]

\* SubscriptionRepository.count_channel_subscriptions
CountChannelSubscriptions(subs, p) ==
    Cardinality({s \in SubKeys : s[1] = p /\ subs[s] # NoRow /\ subs[s].is_active})

\* SubscriptionRepository.get_or_create_subscription
GetOrCreateSubscription(subs, s) ==
    IF subs[s] # NoRow
    THEN [subs |-> [subs EXCEPT ![s].is_active = TRUE], created |-> FALSE]
    ELSE [subs |-> [subs EXCEPT ![s] = [is_active |-> TRUE]], created |-> TRUE]

\* a delete that reports a deleted row whether or not there was one
DeleteReportsRow(subs, s) ==
    [subs |-> [subs EXCEPT ![s] = NoRow], deleted |-> TRUE]

\* SubscriptionRepository.delete_subscription: the DELETE and its rowcount > 0
DeleteSubscription(subs, s) ==
    [subs |-> [subs EXCEPT ![s] = NoRow], deleted |-> subs[s] # NoRow]

\* what the database makes of the tables after a DELETE: with foreign keys
\* enforced, ON DELETE CASCADE removes the entries and subscriptions of a feed
\* that is gone and the receipts of a subscription or an entry that is gone;
\* without, the rows stay
Cascade(fs, es, subs, rcpts) ==
    LET entries == [k \in Keys |-> IF fs[k[1]] = NoRow THEN <<>> ELSE es[k]]
        subscribed == [s \in SubKeys |-> IF fs[s[2]] = NoRow THEN NoRow ELSE subs[s]]
    IN IF foreign_keys
       THEN [entries |-> entries, subscriptions |-> subscribed,
             receipts |-> [p \in Pairs |->
                             IF \/ subscribed[p[1]] = NoRow
                                \/ entries[<<p[1][2], p[2]>>] = <<>>
                             THEN 0 ELSE rcpts[p]]]
       ELSE [entries |-> es, subscriptions |-> subs, receipts |-> rcpts]

Tables == [feeds |-> feeds, subscriptions |-> subscriptions]
TablesAfter == [feeds |-> feeds', subscriptions |-> subscriptions']

Busy == {h \in Handlers : handler[h].pc # "free"}

\* a handler's return: the result is recorded, the handler commits its session
Return(h, op, s, fetch, success, is_new, message) ==
    /\ handler' = [handler EXCEPT ![h] = Free]
    /\ cmdLog' = Append(cmdLog, [op |-> op, sub |-> s, fetch |-> fetch,
                                 success |-> success, is_new |-> is_new,
                                 message |-> message,
                                 pre |-> Tables, post |-> TablesAfter])

\* what add_feed got from the fetcher, if it called it
FetchOf(fs, f, res) ==
    IF fs[f] # NoRow THEN "none"
    ELSE IF ~res.success THEN "failed"
    ELSE IF res.entries = <<>> THEN "empty"
    ELSE "entries"

\* feed_add / cmd_add up to the quota check of SubscriptionService.subscribe:
\* over quota the command returns at once, else it goes on to fetch the feed
SubscribeQuota(h, s) ==
    /\ handler[h].pc = "free"
    /\ Len(cmdLog) + Cardinality(Busy) < MaxCmds
    /\ IF /\ max_feeds_per_channel > 0
          /\ CountChannelSubscriptions(subscriptions, s[1]) >= max_feeds_per_channel
       THEN /\ UNCHANGED <<feeds, subscriptions>>
            /\ Return(h, "subscribe", s, "none", FALSE, FALSE, "Maximum feeds reached")
       ELSE /\ handler' = [handler EXCEPT ![h] = [pc |-> "adding", sub |-> s]]
            /\ UNCHANGED <<feeds, subscriptions, cmdLog>>
    /\ UNCHANGED <<adapters, feed_entries, sent_entries, loopVars, histVars,
                   cyclesLeft, faultsLeft, bulkVars, confVars, svcVars, trVars>>

\* the rest of SubscriptionService.subscribe, and the handler's commit:
\* add_feed, then get_or_create_subscription
SubscribeAdd(h) ==
    /\ handler[h].pc = "adding"
    /\ LET s == handler[h].sub IN
       \E res \in FetchResults(s[2]), etag \in validators, last_modified \in validators :
          LET a == AddFeed(feeds, feed_entries, s[2], res, etag, last_modified)
              g == GetOrCreateSubscription(subscriptions, s)
              fetch == FetchOf(feeds, s[2], res)
          IN /\ feeds' = a.feeds
             /\ feed_entries' = a.entries
             /\ IF ~a.success
                THEN /\ UNCHANGED subscriptions
                     /\ Return(h, "subscribe", s, fetch, FALSE, FALSE, a.message)
                ELSE /\ subscriptions' = g.subs
                     /\ Return(h, "subscribe", s, fetch, TRUE, g.created,
                               IF g.created THEN "Subscribed"
                               ELSE "Already subscribed to this feed")
    /\ UNCHANGED <<adapters, sent_entries, loopVars, histVars,
                   cyclesLeft, faultsLeft, bulkVars, confVars, svcVars, trVars>>

\* feed_remove / cmd_remove: SubscriptionService.unsubscribe and the commit
Unsubscribe(h, s) ==
    /\ handler[h].pc = "free"
    /\ Len(cmdLog) + Cardinality(Busy) < MaxCmds
    /\ IF feeds[s[2]] = NoRow
       THEN /\ UNCHANGED <<feeds, subscriptions, sent_entries>>
            /\ Return(h, "unsubscribe", s, "none", FALSE, FALSE, "Feed not found")
       ELSE LET d == DeleteSubscription(subscriptions, s) IN
            /\ subscriptions' = d.subs
            /\ sent_entries' = Cascade(feeds, feed_entries, d.subs, sent_entries).receipts
            /\ UNCHANGED feeds
            /\ Return(h, "unsubscribe", s, "none", d.deleted, FALSE,
                      IF d.deleted THEN "Unsubscribed" ELSE "Subscription not found")
    /\ UNCHANGED <<adapters, feed_entries, loopVars, histVars,
                   cyclesLeft, faultsLeft, bulkVars, confVars, svcVars, trVars>>

\* the process with its command handlers only, under any quota setting
InitCmd ==
    /\ adapters = {}
    /\ feeds = [f \in FeedIds |-> NoRow]
    /\ feed_entries = EmptyEntries
    /\ subscriptions = [s \in SubKeys |-> NoRow]
    /\ sent_entries = EmptyReceipts
    /\ pc = [l \in Platforms |-> "off"]
    /\ cyclesLeft = 0
    /\ faultsLeft = 0
    /\ validators = {0}
    /\ max_feeds_per_channel \in 0..MaxQuota
    /\ translator = FALSE
    /\ foreign_keys = FALSE
    /\ truncation = NoTruncation
    /\ backlog = NoBacklog
    /\ raising = FALSE
    /\ InitLocals

NextCmd ==
    \/ \E h \in Handlers : \E s \in SubKeys : SubscribeQuota(h, s)
    \/ \E h \in Handlers : SubscribeAdd(h)
    \/ \E h \in Handlers : \E s \in SubKeys : Unsubscribe(h, s)

SpecCmd == InitCmd /\ [][NextCmd]_vars

\* ------------------------------------------------------ rows that grow old
\* the retention period passes: every row stored now is older than it
RetentionPasses ==
    /\ aged' = [entries |-> {k \in Keys : feed_entries[k] # <<>>},
                receipts |-> {p \in Pairs : sent_entries[p] > 0}]
    /\ aged' # aged
    /\ UNCHANGED <<coreVars, notAged>>

\* The process as main starts it: the scheduler is started without a job, so
\* what runs is the dispatch loop, here one loop after the channel has
\* subscribed to every feed
InitJanitor ==
    /\ adapters = {"discord"}
    /\ pc = [l \in Platforms |-> IF l = "discord" THEN "idle" ELSE "off"]
    /\ feeds = [f \in FeedIds |-> NewFeed]
    /\ feed_entries = SeenEntries
    /\ subscriptions = [s \in SubKeys |-> [is_active |-> TRUE]]
    /\ sent_entries = EmptyReceipts
    /\ cyclesLeft = MaxCycles
    /\ faultsLeft = MaxFaults
    /\ validators = {0}
    /\ max_feeds_per_channel = 0
    /\ translator = FALSE
    /\ foreign_keys = FALSE
    /\ truncation = NoTruncation
    /\ backlog = NoBacklog
    /\ raising = FALSE
    /\ InitLocals

\* run_dispatch_loop is "while True": the loop has no last cycle, and the
\* count of cycles only sets how many of them are told apart
LoopGoesOn ==
    /\ cyclesLeft = 0
    /\ cyclesLeft' = MaxCycles
    /\ UNCHANGED <<adapters, dbVars, loopVars, histVars, faultsLeft, bulkVars,
                   confVars, svcVars, cmdVars, trVars>>

NextJanitor ==
    \/ NextErr
    \/ RetentionPasses
    \/ LoopGoesOn

\* the loop's task and the clock go on while something is left to do
SpecJanitor == InitJanitor /\ [][NextJanitor]_vars /\ WF_vars(NextJanitor)

\* ---------------------------------------------------------- deleting rows
\* DELETE /feeds/{feed_id}: FeedRepository.delete_feed and the commit of get_db
DeleteFeed(f) ==
    /\ feeds[f] # NoRow
    /\ LET fs == [feeds EXCEPT ![f] = NoRow]
           c == Cascade(fs, feed_entries, subscriptions, sent_entries)
       IN /\ feeds' = fs
          /\ feed_entries' = c.entries
          /\ subscriptions' = c.subscriptions
          /\ sent_entries' = c.receipts
          /\ channelSubs' = [k \in ChannelKeys |->
                                IF foreign_keys /\ k[2] = f THEN NoRow
                                ELSE channelSubs[k]]
    /\ UNCHANGED <<adapters, loopVars, histVars, cyclesLeft, faultsLeft, bulkVars,
                   confVars, svcVars, cmdVars, settings, translation, sentMessage,
                   settingsCall>>

\* FeedService.cleanup_old_entries and a commit
CleanupOldEntries ==
    /\ aged.entries # {}
    /\ LET es == [k \in Keys |-> IF k \in aged.entries THEN <<>> ELSE feed_entries[k]]
           c == Cascade(feeds, es, subscriptions, sent_entries)
       IN /\ feed_entries' = es
          /\ sent_entries' = c.receipts
          /\ aged' = [entries |-> {},
                      receipts |-> {p \in aged.receipts : c.receipts[p] > 0}]
    /\ UNCHANGED <<adapters, feeds, subscriptions, loopVars, histVars, cyclesLeft,
                   faultsLeft, bulkVars, confVars, cmdVars, trVars, notAged>>

\* SubscriptionService.cleanup_old_sent_entries and a commit
CleanupOldSentEntries ==
    /\ aged.receipts # {}
    /\ sent_entries' = [p \in Pairs |-> IF p \in aged.receipts THEN 0
                                         ELSE sent_entries[p]]
    /\ aged' = [aged EXCEPT !.receipts = {}]
    /\ UNCHANGED <<adapters, feeds, feed_entries, subscriptions, loopVars, histVars,
                   cyclesLeft, faultsLeft, bulkVars, confVars, cmdVars, trVars,
                   notAged>>

\* A deployment that has run for a while, on a database that enforces foreign
\* keys or on one that does not
InitDelete ==
    /\ adapters = {"discord"}
    /\ pc = [l \in Platforms |-> "off"]
    /\ feeds = [f \in FeedIds |-> NewFeed]
    /\ feed_entries = SeenEntries
    /\ subscriptions = [s \in SubKeys |-> [is_active |-> TRUE]]
    /\ sent_entries = SeenReceipts
    /\ cyclesLeft = 0
    /\ faultsLeft = 0
    /\ validators = {0}
    /\ max_feeds_per_channel = 0
    /\ translator = FALSE
    /\ foreign_keys \in BOOLEAN
    /\ truncation = NoTruncation
    /\ backlog = NoBacklog
    /\ raising = FALSE
    /\ InitLocals

NextDelete ==
    \/ \E f \in FeedIds : DeleteFeed(f)
    \/ \E h \in Handlers, s \in SubKeys : Unsubscribe(h, s)
    \/ RetentionPasses
    \/ CleanupOldEntries
    \/ CleanupOldSentEntries

SpecDelete == InitDelete /\ [][NextDelete]_vars

\* ------------------------------------------------ settings of subscriptions
\* SubscriptionRepository.get_channel_subscriptions: the channel's active
\* subscriptions, each with its feed loaded
GetChannelSubscriptions(subs, c) ==
    {k \in ChannelKeys : k[1] = c /\ subs[k] # NoRow /\ subs[k].is_active}

\* SubscriptionRepository.update_subscription_settings: the UPDATE sets the
\* columns whose argument is not None
UpdateSubscriptionSettings(row, translate, target_language) ==
    [row EXCEPT
        !.translate = IF translate = None THEN @ ELSE translate = "true",
        !.target_language = IF target_language = None THEN @ ELSE target_language]

\* SubscriptionService.update_settings on the tables a session sees: the
\* subscriptions afterwards and what the call returns. With a feed_url the
\* loop reads sub.feed.url of each of the channel's subscriptions, which
\* raises for one whose feed row is gone (sub.feed is None); the caller's
\* session is then closed without a commit
UpdateSettings(subs, fs, c, feed_url, translate, target_language) ==
    LET mine == GetChannelSubscriptions(subs, c) IN
    IF mine = {} THEN [subs |-> subs, result |-> "false"]
    ELSE IF feed_url # 0 /\ \E k \in mine : fs[k[2]] = NoRow
    THEN [subs |-> subs, result |-> "raised"]
    ELSE [subs |-> [k \in ChannelKeys |->
                       IF k \in mine /\ (feed_url = 0 \/ k[2] = feed_url)
                       THEN UpdateSubscriptionSettings(subs[k], translate,
                                                       target_language)
                       ELSE subs[k]],
          result |-> "true"]

\* a call of update_settings and the caller's commit
UpdateSettingsCall(c, feed_url, translate, target_language) ==
    /\ settingsCall.calls < MaxSettingsCalls
    /\ LET u == UpdateSettings(channelSubs, feeds, c, feed_url, translate,
                               target_language)
       IN /\ channelSubs' = u.subs
          /\ settingsCall' = [channel |-> c, feed_url |-> feed_url,
                              translate |-> translate,
                              target_language |-> target_language,
                              result |-> u.result,
                              calls |-> settingsCall.calls + 1]
    /\ UNCHANGED <<adapters, dbVars, loopVars, histVars, cyclesLeft, faultsLeft,
                   bulkVars, confVars, svcVars, cmdVars, settings, translation,
                   sentMessage>>

\* a channel subscribes to a stored feed: get_or_create_subscription inserts
\* the row with the column defaults
ChannelSubscribes(c, f) ==
    /\ feeds[f] # NoRow
    /\ channelSubs[<<c, f>>] = NoRow
    /\ channelSubs' = [channelSubs EXCEPT ![<<c, f>>] =
                          [is_active |-> TRUE, translate |-> NewSettings.translate,
                           target_language |-> NewSettings.target_language]]
    /\ UNCHANGED <<adapters, dbVars, loopVars, histVars, cyclesLeft, faultsLeft,
                   bulkVars, confVars, svcVars, cmdVars, settings, translation,
                   sentMessage, settingsCall>>

\* every feed is stored and no channel has subscribed yet, on a database that
\* enforces foreign keys or on one that does not
InitSettings ==
    /\ adapters = {"discord"}
    /\ pc = [l \in Platforms |-> "off"]
    /\ feeds = [f \in FeedIds |-> NewFeed]
    /\ feed_entries = EmptyEntries
    /\ subscriptions = [s \in SubKeys |-> NoRow]
    /\ sent_entries = EmptyReceipts
    /\ cyclesLeft = 0
    /\ faultsLeft = 0
    /\ validators = {0}
    /\ max_feeds_per_channel = 0
    /\ translator = TRUE
    /\ foreign_keys \in BOOLEAN
    /\ truncation = NoTruncation
    /\ backlog = NoBacklog
    /\ raising = FALSE
    /\ InitLocals

NextSettings ==
    \/ \E c \in Channels, f \in FeedIds : ChannelSubscribes(c, f)
    \/ \E f \in FeedIds : DeleteFeed(f)
    \/ \E c \in Channels, feed_url \in Urls, translate \in {None, "true", "false"},
          target_language \in {None} \cup TargetLangs :
          UpdateSettingsCall(c, feed_url, translate, target_language)

SpecSettings == InitSettings /\ [][NextSettings]_vars

\* ------------------------------------------- a subscription with a backlog
\* One subscription to feed 1 whose adapter is registered, served cycle after
\* cycle. The rows of feed_entries are numbered by id: those up to MaxBacklog
\* belong to feed 1, the ones after to another feed.
BacklogRows == 1..(MaxBacklog + MaxOtherRows)
FeedOfRow(i) == IF i <= MaxBacklog THEN 1 ELSE 2
\* published_at of row i: row 1 has none (0), rows 2 and 3 carry the same date
PubOfRow(i) == IF i <= 2 THEN i - 1 ELSE IF i <= MaxBacklog THEN i - 2 ELSE i

\* the rows that may stand first in ORDER BY published_at DESC NULLS LAST
FirstRows(S) == {x \in S : \A y \in S : Before(PubOfRow(x), PubOfRow(y))}

RECURSIVE OrderedLimit(_, _)
\* the lists ORDER BY ... LIMIT n may return for the rows S
OrderedLimit(S, n) ==
    IF n = 0 \/ S = {} THEN {<<>>}
    ELSE UNION {{<<x>> \o q : q \in OrderedLimit(S \ {x}, n - 1)} : x \in FirstRows(S)}

\* the query without LIMIT
UnsentRowsUnlimited(stored, receipts, feed_id, limit) ==
    OrderedLimit({i \in stored : FeedOfRow(i) = feed_id /\ i \notin receipts},
                 Cardinality(stored))

\* SubscriptionRepository.get_unsent_entries_for_subscription on rows numbered
\* by id: the lists it may return
UnsentRows(stored, receipts, feed_id, limit) ==
    OrderedLimit({i \in stored : FeedOfRow(i) = feed_id /\ i \notin receipts}, limit)

\* _dispatch_to_subscription up to its loop: the adapter is there, the unsent
\* entries are queried with limit = 10
BacklogQuery ==
    /\ backlog.pc = "idle"
    /\ backlog.cycles < MaxBacklogCycles
    /\ \E q \in UnsentRows(backlog.stored, backlog.receipts, 1, UnsentLimit) :
          backlog' = [backlog EXCEPT
                         !.todo = q, !.log = <<>>,
                         !.unsent = {i \in backlog.stored :
                                        FeedOfRow(i) = 1 /\ i \notin backlog.receipts},
                         !.pc = "sending", !.cycles = @ + 1]
    /\ UNCHANGED <<coreVars, notBacklog>>

\* one round of its loop: the message is sent and on success the receipt
\* written; a send that returns false or raises writes none
BacklogSend(res) ==
    /\ backlog.pc = "sending"
    /\ backlog.todo # <<>>
    /\ res # "ok" => backlog.failures < MaxSendFailures
    /\ backlog' = [backlog EXCEPT
                      !.todo = Tail(@),
                      !.log = Append(@, [id |-> Head(backlog.todo), res |-> res]),
                      !.receipts = IF res = "ok" THEN @ \cup {Head(backlog.todo)} ELSE @,
                      !.failures = IF res = "ok" THEN @ ELSE @ + 1]
    /\ UNCHANGED <<coreVars, notBacklog>>

\* the loop is through; the cycle commits and the next one may begin
BacklogDone ==
    /\ backlog.pc = "sending"
    /\ backlog.todo = <<>>
    /\ backlog' = [backlog EXCEPT !.pc = "idle"]
    /\ UNCHANGED <<coreVars, notBacklog>>

\* feed 1 has stored any number of entries, of which up to MaxSentBefore in a
\* row have receipts
InitBacklog ==
    /\ adapters = {"discord"}
    /\ feeds = [f \in FeedIds |-> NewFeed]
    /\ feed_entries = EmptyEntries
    /\ subscriptions = [s \in SubKeys |-> [is_active |-> TRUE]]
    /\ sent_entries = EmptyReceipts
    /\ pc = [l \in Platforms |-> "off"]
    /\ cyclesLeft = 0
    /\ faultsLeft = 0
    /\ validators = {0}
    /\ max_feeds_per_channel = 0
    /\ translator = FALSE
    /\ foreign_keys = FALSE
    /\ truncation = NoTruncation
    /\ raising = FALSE
    /\ InitLocals
    /\ \E n \in 0..MaxBacklog, a \in 1..MaxBacklog, r \in 0..MaxSentBefore :
          backlog = [NoBacklog EXCEPT
                        !.stored = (1..n) \cup ((MaxBacklog + 1)..(MaxBacklog + MaxOtherRows)),
                        !.receipts = {i \in 1..n : a <= i /\ i < a + r},
                        !.pc = "idle"]

NextBacklog ==
    \/ BacklogQuery
    \/ \E res \in {"ok", "false", "raise"} : BacklogSend(res)
    \/ BacklogDone

SpecBacklog == InitBacklog /\ [][NextBacklog]_vars

\* ------------------------------------------------ composing in SpecTr
\* a subscription's entry is made into a Message. The provider translates
\* title and summary or fails to (okTitle, okSummary; an entry without
\* summary counts as a failure); the cached columns reach the database
\* unless the cycle's session is not committed or the UPDATE raises (stored)
Compose(c, okTitle, okSummary, stored) ==
    LET sub == settings[c]
        entry == translation
        lang == sub.target_language
        fresh == [title |-> IF okTitle THEN lang ELSE None,
                  summary |-> IF okSummary THEN lang ELSE None]
        tr == TranslateEntry(entry, lang, okTitle, okSummary)
        caches == /\ sub.translate
                  /\ ~CacheHit(entry, lang)
                  /\ translator
                  /\ okTitle \/ okSummary
        m == CreateMessage(sub, entry, tr)
    IN /\ translation' = IF caches /\ stored
                         THEN UpdateEntryTranslation(fresh.title, fresh.summary, lang)
                         ELSE translation
       /\ sentMessage' = [channel |-> c, translate |-> sub.translate,
                      target_language |-> lang,
                      held |-> entry.translation_language,
                      title_translated |-> m.title_translated,
                      summary_translated |-> m.summary_translated]
       /\ UNCHANGED <<adapters, dbVars, loopVars, histVars, cyclesLeft, faultsLeft,
                      bulkVars, confVars, svcVars, cmdVars, settings,
                      channelSubs, settingsCall>>

\* settings_language / cmd_language: update_settings(target_language = ...)
SettingsLanguage(c, language) ==
    /\ settings' = [settings EXCEPT ![c].target_language = language]
    /\ UNCHANGED <<adapters, dbVars, loopVars, histVars, cyclesLeft, faultsLeft,
                   bulkVars, confVars, svcVars, cmdVars, translation, sentMessage,
                   channelSubs, settingsCall>>

\* settings_translate / cmd_translate: refused when enabling without a
\* configured provider, else update_settings(translate = ...)
SettingsTranslate(c, enabled) ==
    /\ settings' = IF enabled /\ ~translator THEN settings
                   ELSE [settings EXCEPT ![c].translate = enabled]
    /\ UNCHANGED <<adapters, dbVars, loopVars, histVars, cyclesLeft, faultsLeft,
                   bulkVars, confVars, svcVars, cmdVars, translation, sentMessage,
                   channelSubs, settingsCall>>

\* NumChannels channels subscribed to one feed that has one entry; a provider
\* is configured or not
InitTr ==
    /\ adapters = {}
    /\ feeds = [f \in FeedIds |-> NoRow]
    /\ feed_entries = EmptyEntries
    /\ subscriptions = [s \in SubKeys |-> NoRow]
    /\ sent_entries = EmptyReceipts
    /\ pc = [l \in Platforms |-> "off"]
    /\ cyclesLeft = 0
    /\ faultsLeft = 0
    /\ validators = {0}
    /\ max_feeds_per_channel = 0
    /\ translator \in BOOLEAN
    /\ foreign_keys = FALSE
    /\ truncation = NoTruncation
    /\ backlog = NoBacklog
    /\ raising = FALSE
    /\ InitLocals

NextTr ==
    \/ \E c \in Channels : \E okTitle, okSummary, stored \in BOOLEAN :
          Compose(c, okTitle, okSummary, stored)
    \/ \E c \in Channels : \E language \in Langs : SettingsLanguage(c, language)
    \/ \E c \in Channels : \E enabled \in BOOLEAN : SettingsTranslate(c, enabled)

SpecTr == InitTr /\ [][NextTr]_vars

\* =============================================================== properties
\* what a cycle's log records for one subscription, in the order sent
LogOf(l, s) == SelectSeq(cyc[l].log, LAMBDA e : e.sub = s)

\* loop l is the only dispatch loop the process has started
Alone(l) == \A m \in Platforms \ {l} : pc[m] = "off"

\* newest published_at first, entries without one (0) last
NewestFirst(q) ==
    \A i, j \in 1..Len(q) :
        i < j => (q[j].pub = 0 \/ (q[i].pub # 0 /\ q[i].pub >= q[j].pub))

\* C1: over all cycles, those that end in an error and roll back included,
\* send_message returns success at most once for any (subscription, entry)
\* pair
C1_DeliveredAtMostOnce == \A p \in Pairs : delivered[p] <= 1

\* C2: a receipt only where a send returned success, none left by a send that
\* failed, and every success of a cycle has a committed receipt once the
\* cycle has ended
C2_ReceiptIffSuccess ==
    /\ \A p \in Pairs : sent_entries[p] > 0 => delivered[p] > 0
    /\ \A l \in Platforms : \A p \in Pairs :
          sess[l].receipts[p] > 0 => p \in OkPairs(cyc[l].log)
    /\ \A l \in Platforms :
          pc[l] = "done" =>
             \A p \in OkPairs(cyc[l].log) : sent_entries[p] > 0

\* C3: in every reachable state there is at most one receipt for each
\* (subscription, entry) pair, in the table and in what any session sees
C3_AtMostOneReceipt ==
    \A p \in Pairs :
        /\ sent_entries[p] <= 1
        /\ \A l \in Platforms : ViewReceipts(l)[p] <= 1

\* two cycles running at the same time have both delivered a pair, without
\* any storage fault, and one receipt is stored
C3_Witness ==
    \E p \in Pairs :
        /\ delivered[p] = 2
        /\ sent_entries[p] = 1
        /\ faultsLeft = MaxFaults

\* C4: a pair whose send returned false in the previous cycle is attempted
\* again in the cycle that has now ended, if the subscription is active, its
\* adapter registered and the entry stored
C4_RetriedNextCycle ==
    \A l \in Platforms :
        (pc[l] = "done" /\ Alone(l) /\ cyc[l].outcome # "rolledback") =>
            \A p \in retry :
                ( /\ subscriptions[p[1]] # NoRow
                  /\ subscriptions[p[1]].is_active
                  /\ p[1][1] \in adapters
                  /\ feed_entries[<<p[1][2], p[2]>>] # <<>> )
                => p \in TriedPairs(cyc[l].log)

\* C5: the first cycle after a subscribe, the only one, to a feed whose 3
\* entries are stored, with no fetch, send or storage failure, has sent 3
\* messages to the channel, newest first, and left 3 receipts
C5_FreshSubscribe ==
    \A l \in Platforms : \A s \in SubKeys :
        ( /\ pc[l] = "done"
          /\ Alone(l)
          /\ cyclesLeft = MaxCycles - 1
          /\ faultsLeft = MaxFaults
          /\ {t \in SubKeys : subscriptions[t] # NoRow} = {s}
          /\ s[1] = l
          /\ loaded[l][s[2]] # NoRow
          /\ Cardinality({g \in GuidsOf(s[2]) : feed_entries[<<s[2], g>>] # <<>>}) = 3
          /\ cyc[l].failedFeeds = {}
          /\ FailedPairs(cyc[l].log) = {} )
        => /\ Len(LogOf(l, s)) = 3
           /\ NewestFirst(LogOf(l, s))
           /\ Cardinality({g \in GuidsOf(s[2]) : sent_entries[<<s, g>>] = 1}) = 3

\* the case C6 is about: the cycle of loop l found exactly one new entry d in
\* the feed of s, has served s, and when it asked for the unsent entries of s
\* every other stored entry of the feed had a receipt for s
OneNewEntry(l, s, d) ==
    /\ s \in cyc[l].queried
    /\ ~(cur[l] = s /\ todo[l] # <<>>)
    /\ {k \in cyc[l].new : k[1] = s[2]} = {<<s[2], d>>}
    /\ {p \in cyc[l].owed : p[1] = s} \subseteq {<<s, d>>}

\* C6: in that case exactly one message, d, is handed to the adapter for s,
\* and when the send succeeds exactly one receipt, for d, is added for s: in
\* the session, and in the table once the cycle has committed
C6_OnlyNewEntrySent ==
    \A l \in Platforms : \A s \in SubKeys : \A d \in Guids :
        OneNewEntry(l, s, d) =>
            LET q == LogOf(l, s) IN
            /\ Len(q) = 1
            /\ q[1].guid = d
            /\ (q[1].res = "ok" /\ pc[l] = "sending" /\ ~sess[l].broken) =>
                  \A p \in Pairs :
                      p[1] = s => sess[l].receipts[p] = (IF p[2] = d THEN 1 ELSE 0)
            /\ (q[1].res = "ok" /\ pc[l] = "done" /\ cyc[l].outcome = "committed") =>
                  sent_entries[<<s, d>>] = 1

\* a committed cycle sent the one new entry to a subscription that held a
\* receipt for an older entry
C6_Witness ==
    \E l \in Platforms : \E s \in SubKeys : \E d \in Guids :
        /\ OneNewEntry(l, s, d)
        /\ pc[l] = "done"
        /\ cyc[l].outcome = "committed"
        /\ OkPairs(cyc[l].log) = {<<s, d>>}
        /\ \E g \in GuidsOf(s[2]) \ {d} : sent_entries[<<s, g>>] = 1

\* C7: at most one execution of dispatch_once is in progress at any time
C7_OneCycleAtATime ==
    Cardinality({l \in Platforms : pc[l] \in {"fetching", "sending"}}) <= 1

\* C8: within one cycle the entries sent to a subscription go out newest
\* published_at first, those without a published_at after all the others
C8_NewestFirst ==
    \A l \in Platforms : \A s \in SubKeys : NewestFirst(LogOf(l, s))

\* three entries went to one subscription in one cycle, the undated one last
C8_Witness ==
    \E l \in Platforms : \E s \in SubKeys :
        LET q == LogOf(l, s) IN
        /\ Len(q) = 3
        /\ q[1].pub > q[2].pub
        /\ q[2].pub > 0
        /\ q[3].pub = 0

\* everything create_entries_bulk has been given, call after call
BulkHistory ==
    bulkIn \o [i \in 1..Len(bulkRet.data) |->
                  [feed |-> bulkRet.feed, guid |-> bulkRet.data[i].guid,
                   pub |-> bulkRet.data[i].pub]]

\* the positions of history h that name key k
Occurrences(h, k) == {i \in 1..Len(h) : h[i].feed = k[1] /\ h[i].guid = k[2]}

\* the positions of the last call's data that name a guid for the first time
FirstInCall ==
    {i \in 1..Len(bulkRet.data) :
        /\ Occurrences(bulkIn, <<bulkRet.feed, bulkRet.data[i].guid>>) = {}
        /\ \A j \in 1..(i - 1) : bulkRet.data[j].guid # bulkRet.data[i].guid}

RECURSIVE Pick(_, _, _)
\* the elements of q at the positions in I, from position i on
Pick(q, I, i) ==
    IF i > Len(q) THEN <<>>
    ELSE (IF i \in I THEN <<q[i]>> ELSE <<>>) \o Pick(q, I, i + 1)

\* C9: after any calls of create_entries_bulk the rows stored under a key are
\* exactly the first occurrence of that key in everything passed, so no two
\* rows share (feed_id, guid); no call raised; and the last call returned
\* exactly the rows it created
C9_FirstOccurrenceStored ==
    /\ \A k \in Keys :
          LET occ == Occurrences(BulkHistory, k) IN
          feed_entries[k] =
             IF occ = {} THEN <<>>
             ELSE <<BulkHistory[CHOOSE i \in occ : \A j \in occ : i <= j].pub>>
    /\ ~bulkRet.raised
    /\ bulkRet.created = Pick(bulkRet.data, FirstInCall, 1)

\* the second call repeated a guid within its data under another date, named
\* a guid an earlier call had stored, and created a row
C9_Witness ==
    /\ bulkCalls = 2
    /\ bulkRet.created # <<>>
    /\ \E i, j \in 1..Len(bulkRet.data) :
          /\ i < j
          /\ bulkRet.data[i].guid = bulkRet.data[j].guid
          /\ bulkRet.data[i].pub # bulkRet.data[j].pub
    /\ \E i \in 1..Len(bulkRet.data) :
          Occurrences(bulkIn, <<bulkRet.feed, bulkRet.data[i].guid>>) # {}

\* C10: when a cycle has ended, every feed was fetched, and each feed whose
\* fetch failed contributed no new entry, has a stored error_count one above
\* the count the cycle loaded, and has last_error set
C10_FetchFailureCounted ==
    \A l \in Platforms :
        (pc[l] = "done" /\ Alone(l) /\ cyc[l].outcome # "rolledback") =>
            /\ feedsTodo[l] = <<>>
            /\ \A f \in cyc[l].failedFeeds :
                  /\ \A k \in cyc[l].new : k[1] # f
                  /\ feeds[f].error_count = loaded[l][f].error_count + 1
                  /\ feeds[f].last_error

\* ---- C11
\* C11: a feed whose fetch has failed in ErrorThreshold cycles in a row is
\* inactive once the last of these cycles has ended, so that get_all_active_feeds
\* omits it and no later cycle fetches it
C11_DeactivatedAfterFailures ==
    \A f \in FeedIds :
        streak[f] >= ErrorThreshold => feeds[f] # NoRow /\ ~feeds[f].is_active

\* ---- C12
\* the Feed object of feed f as loop l's session holds it
FeedObject(l, f) == ApplyFeedUpd(loaded[l][f], sess[l].feedUpd[f])

\* C12: a feed with error_count >= ErrorThreshold is inactive, as stored and as
\* held by any session; in particular the mark_error that brings the count to
\* the threshold has deactivated the feed when it returns
C12_ThresholdDeactivates ==
    /\ \A f \in FeedIds :
          feeds[f] # NoRow /\ feeds[f].error_count >= ErrorThreshold
             => ~feeds[f].is_active
    /\ \A l \in Platforms : \A f \in FeedIds :
          loaded[l][f] # NoRow /\ FeedObject(l, f).error_count >= ErrorThreshold
             => ~FeedObject(l, f).is_active

\* a failed fetch has brought the count from one below the threshold to the
\* threshold, and the cycle has committed it
C12_Witness ==
    \E l \in Platforms : \E f \in FeedIds :
        /\ cyc[l].outcome = "committed"
        /\ f \in cyc[l].failedFeeds
        /\ loaded[l][f].error_count = ErrorThreshold - 1
        /\ feeds[f].error_count = ErrorThreshold
        /\ ~feeds[f].is_active

\* ---- C13
\* C13: when a cycle has ended, each feed whose fetch succeeded in it (a
\* parsed document or 304) is stored with error_count 0 and last_error
\* cleared, whatever count the failed fetches before had left
C13_SuccessResets ==
    \A l \in Platforms :
        (pc[l] = "done" /\ Alone(l) /\ cyc[l].outcome # "rolledback") =>
            \A f \in Fetched(l) \ cyc[l].failedFeeds :
                /\ feeds[f].error_count = 0
                /\ ~feeds[f].last_error

\* ---- C14
\* C14: a feed that answered 304 in loop l's cycle is reported as fetched with
\* success and without a new entry, the session has stored no entry for it,
\* and its etag and last_modified, as the session holds them and as stored,
\* are those the cycle loaded
C14_NotModifiedKeepsValidators ==
    \A l \in Platforms : \A f \in cyc[l].notModified :
        /\ f \notin cyc[l].failedFeeds
        /\ \A k \in cyc[l].new : k[1] # f
        /\ \A k \in Keys : k[1] = f => sess[l].entries[k] = <<>>
        /\ FeedObject(l, f).etag = loaded[l][f].etag
        /\ FeedObject(l, f).last_modified = loaded[l][f].last_modified
        /\ Alone(l) => /\ feeds[f].etag = loaded[l][f].etag
                       /\ feeds[f].last_modified = loaded[l][f].last_modified
                       /\ \A k \in Keys : k[1] = f => ViewEntries(l)[k] = feed_entries[k]

\* a feed stored with both validators has answered 304 in a cycle that
\* committed
C14_Witness ==
    \E l \in Platforms : \E f \in cyc[l].notModified :
        /\ cyc[l].outcome = "committed"
        /\ loaded[l][f].etag # 0
        /\ loaded[l][f].last_modified # 0
        /\ feeds[f].etag = loaded[l][f].etag

\* ---- C15
\* the binding s does not exist before command i of the log, which subscribes it
FirstOfTwo(i) ==
    /\ i + 1 <= Len(cmdLog)
    /\ cmdLog[i].op = "subscribe"
    /\ cmdLog[i].success
    /\ cmdLog[i].pre.subscriptions[cmdLog[i].sub] = NoRow
    /\ cmdLog[i + 1].op = "subscribe"
    /\ cmdLog[i + 1].sub = cmdLog[i].sub

\* C15: of two subscribe calls in a row for the same binding, the first of
\* which succeeds, the first returns is_new = true, the second returns success
\* with is_new = false, and the binding's row is there after both, under
\* any max_feeds_per_channel
C15_SubscribeTwice ==
    \A i \in 1..Len(cmdLog) :
        FirstOfTwo(i) =>
            /\ cmdLog[i].is_new
            /\ cmdLog[i].post.subscriptions[cmdLog[i].sub] # NoRow
            /\ cmdLog[i + 1].success
            /\ ~cmdLog[i + 1].is_new
            /\ cmdLog[i + 1].post.subscriptions[cmdLog[i].sub] # NoRow

\* ---- C16
\* C16: with max_feeds_per_channel = N > 0 a subscribe that has returned
\* 'Maximum feeds reached' has changed no feed or subscription row, and a
\* channel never has more than N active subscriptions, concurrent subscribe
\* commands included
C16_QuotaRespected ==
    max_feeds_per_channel > 0 =>
        /\ \A i \in 1..Len(cmdLog) :
              cmdLog[i].message = "Maximum feeds reached" =>
                  ~cmdLog[i].success /\ cmdLog[i].post = cmdLog[i].pre
        /\ \A p \in Platforms :
              CountChannelSubscriptions(subscriptions, p) <= max_feeds_per_channel

\* ---- C17
\* C17: unsubscribe returns success exactly when, as it runs, the feed of the
\* URL is stored and the binding exists; on success that binding's row and no
\* other row is gone, on failure the feed and subscription rows are as before
C17_UnsubscribeResult ==
    \A i \in 1..Len(cmdLog) :
        cmdLog[i].op = "unsubscribe" =>
            LET c == cmdLog[i] IN
            /\ c.success <=> /\ c.pre.feeds[c.sub[2]] # NoRow
                             /\ c.pre.subscriptions[c.sub] # NoRow
            /\ c.post.feeds = c.pre.feeds
            /\ c.post.subscriptions =
                  IF c.success THEN [c.pre.subscriptions EXCEPT ![c.sub] = NoRow]
                  ELSE c.pre.subscriptions

\* a binding has been removed while another was left in place, and an
\* unsubscribe for a binding that does not exist has failed on a stored feed
C17_Witness ==
    \E i, j \in 1..Len(cmdLog) :
        /\ cmdLog[i].op = "unsubscribe"
        /\ cmdLog[i].success
        /\ \E s \in SubKeys : s # cmdLog[i].sub /\ cmdLog[i].post.subscriptions[s] # NoRow
        /\ cmdLog[j].op = "unsubscribe"
        /\ cmdLog[j].message = "Subscription not found"

\* ---- C18
\* C18: a subscribe whose URL is not stored and whose fetch fails or yields no
\* entry returns failure with the message of its case, and the feed and
\* subscription rows are as before
C18_FailedAddCreatesNothing ==
    \A i \in 1..Len(cmdLog) :
        LET c == cmdLog[i] IN
        (c.op = "subscribe" /\ c.fetch \in {"failed", "empty"}) =>
            /\ ~c.success
            /\ c.message = IF c.fetch = "failed" THEN "Failed to fetch feed"
                           ELSE "Feed has no entries"
            /\ c.post = c.pre
            /\ c.post.feeds[c.sub[2]] = NoRow
            /\ c.post.subscriptions[c.sub] = NoRow

\* both cases have happened: a fetch that failed, a document without entries
C18_Witness ==
    \E i, j \in 1..Len(cmdLog) :
        /\ cmdLog[i].op = "subscribe" /\ cmdLog[i].fetch = "failed"
        /\ cmdLog[j].op = "subscribe" /\ cmdLog[j].fetch = "empty"

\* ---- C19
\* C19: a Message carries a translated title or summary only if its
\* subscription has translate set and a target_language the provider supports
C19_TranslatedOnlyIfEnabled ==
    (/\ sentMessage # NoMessage
     /\ Some(sentMessage.title_translated) \/ Some(sentMessage.summary_translated))
        => /\ sentMessage.translate
           /\ sentMessage.target_language \in Supported

\* ---- C20
\* text is nothing, or a translation into language lang
TextFor(text, lang) == ~Some(text) \/ text = lang

\* C20: what an entry stores as title_translated and summary_translated are
\* translations into its translation_language, and the translated text of a
\* Message for a subscription with translate set was produced for the
\* target_language the subscription had when the Message was composed
C20_TranslationMatchesLanguage ==
    /\ TextFor(translation.title_translated, translation.translation_language)
    /\ TextFor(translation.summary_translated, translation.translation_language)
    /\ (sentMessage # NoMessage /\ sentMessage.translate) =>
          /\ TextFor(sentMessage.title_translated, sentMessage.target_language)
          /\ TextFor(sentMessage.summary_translated, sentMessage.target_language)

\* the entry held a translation into another language when a Message with
\* a translated title was composed for a subscription with translate set,
\* and the entry now holds the translation into the subscription's language
C20_Witness ==
    /\ sentMessage # NoMessage
    /\ sentMessage.translate
    /\ sentMessage.held \in Langs \ {sentMessage.target_language}
    /\ sentMessage.title_translated = sentMessage.target_language
    /\ translation.translation_language = sentMessage.target_language
    /\ Some(translation.title_translated)

\* C21: an entry whose translation fails (the provider answers success = false
\* or raises for every text of the entry) is handed to the adapter with no
\* translated title or summary, so that the original ones are shown; when the
\* adapter succeeds the receipt is written in the cycle's session; and the
\* loop goes on with the entries that remain: every entry the subscription
\* was owed is either tried or still waiting in the batch
TranslationFailed(r) == ~r.okTitle /\ ~r.okSummary

Repeated(i, j) ==
    /\ i < j
    /\ translateLog[j].began >= i
    /\ translateLog[j].text = translateLog[i].text
    /\ translateLog[j].target_lang = translateLog[i].target_lang
    /\ translateLog[i].success

ServedFromCache(i, j) ==
    /\ translateLog[j].translated_text = translateLog[i].translated_text
    /\ translateLog[j].from_cache
    /\ ~translateLog[j].provider

C23_DbErrorRollsBack ==
    \A l \in Platforms :
       (pc[l] = "done" /\ cyc[l].statementErrors # {}) =>
          cyc[l].outcome = "rolledback"

\* C24: at most max_concurrent fetches of the shared fetcher are in flight,
\* over all callers, and every fetch that has ended, in success or in failure,
\* has given its permit back: the permits left and the fetches in flight add
\* up to max_concurrent
C24_FetchesBounded ==
    /\ Cardinality(InFlightFetches) <= FetcherMaxConcurrent
    /\ semaphore + Cardinality(InFlightFetches) = FetcherMaxConcurrent

\* all permits are taken while a task waits, after fetches have ended in
\* failure and with an exception
C24_Witness ==
    /\ Cardinality(InFlightFetches) = FetcherMaxConcurrent
    /\ \E t \in FetchTasks : fetching[t].pc = "waiting"
    /\ \E t \in InFlightFetches : fetching[t].last = "failure"
    /\ \E t \in InFlightFetches : fetching[t].last = "raise"

\* C25: translate_batch returns one result per input text, result i being
\* that of text i whatever order the translations completed in, and never
\* more than max_concurrent translations of the batch are in flight
C25_BatchInOrder ==
    /\ Cardinality(Running(batch)) <= BatchMaxConcurrent
    /\ batch.state = "returned" =>
          /\ Len(batch.returned) = Len(batch.texts)
          /\ \A i \in 1..Len(batch.texts) : batch.returned[i].of = batch.texts[i]

\* a batch of different texts, longer than max_concurrent, has returned after
\* its translations completed out of order
C25_Witness ==
    /\ batch.state = "returned"
    /\ Len(batch.texts) > BatchMaxConcurrent
    /\ \E i, j \in 1..Len(batch.texts) :
          /\ i < j
          /\ batch.texts[batch.completed[i]] # batch.texts[i]
          /\ batch.completed[i] > batch.completed[j]

C27_OldRowsDeleted ==
    /\ \A k \in Keys : (k \in aged.entries) ~> (feed_entries[k] = <<>>)
    /\ \A p \in Pairs : (p \in aged.receipts) ~> (sent_entries[p] = 0)

\* C28: every entry and every subscription refers to a feed that exists, and
\* every receipt to a subscription and an entry that exist
C28_NoDanglingReferences ==
    /\ \A k \in Keys : feed_entries[k] # <<>> => feeds[k[1]] # NoRow
    /\ \A s \in SubKeys : subscriptions[s] # NoRow => feeds[s[2]] # NoRow
    /\ \A p \in Pairs :
          sent_entries[p] > 0 =>
             /\ subscriptions[p[1]] # NoRow
             /\ feed_entries[<<p[1][2], p[2]>>] # <<>>

EndsWith(text, tail) ==
    /\ Len(text) >= Len(tail)
    /\ SubSeq(text, Len(text) - Len(tail) + 1, Len(text)) = tail

\* C29: for max_length >= 3 the result of truncate_text is no longer than
\* max_length, is the text when the text fits, and ends with the suffix when
\* it does not
C29_TruncateWithinLength ==
    (truncation.state = "returned" /\ truncation.max_length >= Len(suffix)) =>
       /\ Len(truncation.result) <= truncation.max_length
       /\ Len(truncation.text) <= truncation.max_length =>
             truncation.result = truncation.text
       /\ Len(truncation.text) > truncation.max_length =>
             EndsWith(truncation.result, suffix)

\* a text too long was cut at a word boundary, and came out shorter than
\* max_length
C29_Witness ==
    /\ truncation.state = "returned"
    /\ truncation.max_length > Len(suffix)
    /\ Len(truncation.text) > truncation.max_length
    /\ Len(truncation.result) < truncation.max_length
    /\ Len(truncation.result) > Len(suffix)

\* C30: within a dispatch cycle all feeds are fetched and all new entries
\* inserted before the first send: once the cycle has handed an entry to the
\* adapter no feed is left to fetch, and no step adds an entry to the cycle's
\* session or to the cycle's new entries
C30_InsertsBeforeSends ==
    [][\A l \in Platforms :
          cyc[l].log # <<>> =>
             /\ feedsTodo[l] = <<>>
             /\ feedsTodo'[l] = <<>>
             /\ \A k \in Keys : Len(sess'[l].entries[k]) <= Len(sess[l].entries[k])
             /\ cyc'[l].new \subseteq cyc[l].new]_vars

\* a cycle that inserted new entries of two feeds has begun to send
C30_Witness ==
    \E l \in Platforms :
       /\ cyc[l].log # <<>>
       /\ \E k1, k2 \in cyc[l].new : k1[1] # k2[1]

\* C31: when two sessions insert an entry under the same (feed_id, guid) at
\* the same time, the duplicate is dropped silently: the cycle that loses is
\* not aborted, its fetch of the feed counts as a success and the feed's
\* error_count is not raised
C31_DuplicateDroppedSilently ==
    \A l \in Platforms :
        (pc[l] = "done" /\ cyc[l].duplicates # {}) =>
            /\ cyc[l].outcome # "rolledback"
            /\ cyc[l].duplicates \cap cyc[l].failedFeeds = {}

\* the ids a cycle's log names
LoggedRows == {backlog.log[i].id : i \in 1..Len(backlog.log)}

\* C32: in one dispatch cycle a subscription is sent at most 10 entries, each
\* once, and each an entry of its own feed that had no receipt for it when
\* the cycle queried the unsent entries
C32_AtMostTenOwnUnsent ==
    /\ Len(backlog.log) <= 10
    /\ Cardinality(LoggedRows) = Len(backlog.log)
    /\ \A i \in LoggedRows : FeedOfRow(i) = 1 /\ i \in backlog.unsent

\* more than ten entries were unsent and the cycle has sent ten of them
C32_Witness ==
    /\ Cardinality(backlog.unsent) > 10
    /\ backlog.todo = <<>>
    /\ Len(backlog.log) = 10
    /\ \A i \in 1..10 : backlog.log[i].res = "ok"

\* the pairs whose composing or sending raised in a cycle
RaisedPairs(log) == {<<log[i].sub, log[i].guid>> :
                        i \in {j \in 1..Len(log) : log[j].res = "raise"}}

\* a step of loop l in which composing or sending an entry raises
RaisedStep(l) ==
    /\ Len(cyc'[l].log) = Len(cyc[l].log) + 1
    /\ cyc'[l].log[Len(cyc'[l].log)].res = "raise"

\* C33: an exception raised while composing or sending one entry is handled
\* where it is raised: the step writes no receipt and leaves the session, the
\* tables and the subscriptions still to serve as they are, going on to the
\* next entry; the entry has no receipt in the session; and when the cycle
\* commits, every unsent entry of every active subscription has been tried,
\* those sent with success have their receipt committed and those that raised
\* have none
C33_RaiseHandledLocally ==
    /\ [](\A l \in Platforms :
            /\ \A p \in RaisedPairs(cyc[l].log) : sess[l].receipts[p] = 0
            /\ (pc[l] = "done" /\ cyc[l].outcome = "committed"
                    /\ RaisedPairs(cyc[l].log) # {}) =>
                  /\ cyc[l].queried =
                        {s \in SubKeys : subscriptions[s] # NoRow
                                         /\ subscriptions[s].is_active}
                  /\ TriedPairs(cyc[l].log) = cyc[l].owed
                  /\ \A p \in OkPairs(cyc[l].log) : sent_entries[p] = 1
                  /\ \A p \in RaisedPairs(cyc[l].log) : sent_entries[p] = 0)
    /\ [][\A l \in Platforms :
            RaisedStep(l) =>
                /\ pc'[l] = "sending" /\ pc[l] = "sending"
                /\ sess'[l] = sess[l]
                /\ todo'[l] = Tail(todo[l])
                /\ subsTodo'[l] = subsTodo[l]
                /\ UNCHANGED dbVars]_vars

\* a committed cycle in which an entry raised, a later entry of the same
\* subscription was sent, and so was an entry of the subscription after it
C33_Witness ==
    \E l \in Platforms :
        /\ pc[l] = "done"
        /\ cyc[l].outcome = "committed"
        /\ \E i, j, k \in 1..Len(cyc[l].log) :
              LET log == cyc[l].log IN
              /\ i < j /\ j < k
              /\ log[i].res = "raise"
              /\ log[j].res = "ok" /\ log[j].sub = log[i].sub
              /\ log[k].res = "ok" /\ log[k].sub # log[i].sub
              /\ sent_entries[<<log[i].sub, log[i].guid>>] = 0
              /\ sent_entries[<<log[j].sub, log[j].guid>>] = 1
              /\ sent_entries[<<log[k].sub, log[k].guid>>] = 1

\* C34: once an entry is stored, inserting the feed's entries again leaves
\* its row as it is, also when the same guid comes with other content (a
\* row stands for the columns create_entry copies from the item: guid, title,
\* link, summary, content, author, published_at, image_url)
C34_StoredEntryUnchanged ==
    [][\A k \in Keys :
          feed_entries[k] # <<>> => feed_entries'[k] = feed_entries[k]]_vars

\* the last call carried a guid stored by an earlier call, with other content,
\* and the row is the one stored first
C34_Witness ==
    \E i \in 1..Len(bulkRet.data), j \in 1..Len(bulkIn) :
        /\ bulkIn[j].feed = bulkRet.feed
        /\ bulkIn[j].guid = bulkRet.data[i].guid
        /\ bulkIn[j].pub # bulkRet.data[i].pub
        /\ feed_entries[<<bulkRet.feed, bulkRet.data[i].guid>>] # <<bulkRet.data[i].pub>>
        /\ Len(feed_entries[<<bulkRet.feed, bulkRet.data[i].guid>>]) = 1

\* the subscriptions a call of update_settings is to change
Addressed(call, k) ==
    /\ k[1] = call.channel
    /\ channelSubs[k] # NoRow
    /\ channelSubs[k].is_active
    /\ call.feed_url = 0 \/ k[2] = call.feed_url

\* C35: update_settings without feed_url changes the settings given on every
\* active subscription of the channel, with feed_url on the one bound to that
\* feed; every other subscription and every setting passed as None stay as
\* they are; it returns false when the channel has no active subscription
C35_UpdateSettingsFrame ==
    [][settingsCall' # settingsCall =>
         LET call == settingsCall' IN
         /\ call.result \in {"true", "false"}
         /\ GetChannelSubscriptions(channelSubs, call.channel) = {}
               => call.result = "false"
         /\ \A k \in ChannelKeys :
               IF Addressed(call, k)
               THEN /\ channelSubs'[k].is_active = channelSubs[k].is_active
                    /\ channelSubs'[k].translate =
                          IF call.translate = None THEN channelSubs[k].translate
                          ELSE call.translate = "true"
                    /\ channelSubs'[k].target_language =
                          IF call.target_language = None
                          THEN channelSubs[k].target_language
                          ELSE call.target_language
               ELSE channelSubs'[k] = channelSubs[k]]_vars

\* the keys a cache holds
HeldKeys(c) == {c[i].key : i \in 1..Len(c)}

\* of the keys held, the one whose last use by get or set lies furthest back
LeastRecentlyUsed ==
    LET held == SelectSeq(lru.recency, LAMBDA k : k \in HeldKeys(cache))
    IN IF held = <<>> THEN {} ELSE {Head(held)}

\* C36: whatever get, set, delete, exists and clear operations were made, the
\* MemoryCache holds at most max_size keys, each once, and a key that a set
\* evicts is the least recently used of the keys held, get and set counting
\* as use
C36_BoundedAndLru ==
    /\ [](/\ Len(cache) <= CacheMaxSize
          /\ Cardinality(HeldKeys(cache)) = Len(cache))
    /\ [][(lru'.op.name = "set" /\ cache' # cache
              /\ HeldKeys(cache) \ HeldKeys(cache') # {}) =>
             /\ HeldKeys(cache) \ HeldKeys(cache') = LeastRecentlyUsed
             /\ lru'.op.evicted = LeastRecentlyUsed
             /\ Len(cache) = CacheMaxSize]_vars

\* a set at capacity has evicted a key that was set after a key still held,
\* which has been read since
C36_Witness ==
    /\ lru.op.name = "set"
    /\ lru.op.evicted # {}
    /\ Len(cache) = CacheMaxSize
    /\ \E i, j \in 1..Len(lru.written) :
          /\ i < j
          /\ lru.written[j] \in lru.op.evicted
          /\ lru.written[i] \in HeldKeys(cache)

\* ------------------------------------------------------ deactivated feeds
\* a stored feed row that is inactive stays inactive for as long as it exists
StaysInactive ==
    \A f \in FeedIds :
        (feeds[f] # NoRow /\ ~feeds[f].is_active) =>
            (feeds'[f] = NoRow \/ ~feeds'[f].is_active)

\* loop l takes a fetch_and_store step for the feed at the head of its list
FetchStep(l) ==
    /\ pc[l] = "fetching"
    /\ feedsTodo[l] # <<>>
    /\ sess'[l] # sess[l] \/ cyc'[l] # cyc[l]

\* C37: once is_active of a feed is false no step sets it back to true, and
\* no dispatch cycle fetches a feed whose stored row is inactive
C37_DeactivatedForGood ==
    [][/\ StaysInactive
       /\ \A l \in Platforms :
             FetchStep(l) => feeds[Head(feedsTodo[l])].is_active]_vars

\* the first half alone: no step reactivates a feed
NeverReactivated == [][StaysInactive]_vars

\* ------------------------------------- subscribe commands of several channels
\* The commands of channels c for the URL of feed f, each in its own session,
\* told apart at the one await that lets another command in: the fetch of
\* add_feed.
\* the answer of a command: "success" or "failure" of the SubscribeResult it
\* returns, or "raised" when subscribe ends in an exception, the session
\* closed without a commit
Answer(h, c, f, fetch, result, is_new) ==
    /\ handler' = [handler EXCEPT ![h] = Free]
    /\ cmdLog' = Append(cmdLog, [op |-> "subscribe", channel |-> c, url |-> f,
                                 fetch |-> fetch, result |-> result,
                                 is_new |-> is_new])

\* get_or_create_subscription for channel c and feed f, then the commit
ChannelSubscription(h, c, f, fetch) ==
    /\ channelSubs' = [channelSubs EXCEPT ![<<c, f>>] =
                          IF @ # NoRow THEN [@ EXCEPT !.is_active = TRUE]
                          ELSE [is_active |-> TRUE, translate |-> NewSettings.translate,
                                target_language |-> NewSettings.target_language]]
    /\ Answer(h, c, f, fetch, "success", channelSubs[<<c, f>>] = NoRow)

\* FeedRepository.create_feed on the table as it is when the INSERT is
\* flushed: url is unique, so a row stored for the URL since the command
\* looked makes the flush raise IntegrityError
CreateFeed(fs, f) ==
    IF fs[f] # NoRow THEN [raised |-> TRUE, feeds |-> fs]
    ELSE [raised |-> FALSE, feeds |-> [fs EXCEPT ![f] = NewFeed]]

\* feed_add / cmd_add up to the fetch of add_feed: the quota check, then
\* get_feed_by_url; a known URL goes on to the subscription without a fetch
ChannelSubscribeBegins(h, c, f) ==
    /\ handler[h].pc = "free"
    /\ Len(cmdLog) + Cardinality(Busy) < MaxCmds
    /\ IF /\ max_feeds_per_channel > 0
          /\ Cardinality(GetChannelSubscriptions(channelSubs, c)) >= max_feeds_per_channel
       THEN /\ Answer(h, c, f, "none", "failure", FALSE)
            /\ UNCHANGED channelSubs
       ELSE IF feeds[f] # NoRow
       THEN ChannelSubscription(h, c, f, "none")
       ELSE /\ handler' = [handler EXCEPT ![h] = [pc |-> "fetching", sub |-> <<c, f>>]]
            /\ UNCHANGED <<channelSubs, cmdLog>>
    /\ UNCHANGED <<adapters, dbVars, loopVars, histVars, cyclesLeft, faultsLeft,
                   bulkVars, confVars, svcVars, settings, translation,
                   sentMessage, settingsCall>>

\* the fetch has answered: the rest of add_feed (create_feed,
\* update_feed_metadata, create_entries_bulk), get_or_create_subscription and
\* the handler's commit
ChannelSubscribeFetched(h) ==
    /\ handler[h].pc = "fetching"
    /\ LET c == handler[h].sub[1]
           f == handler[h].sub[2]
       IN \E res \in FetchResults(f), etag \in validators, last_modified \in validators :
             LET made == CreateFeed(feeds, f) IN
             IF ~res.success \/ res.entries = <<>>
             THEN /\ Answer(h, c, f, IF res.success THEN "empty" ELSE "failed",
                            "failure", FALSE)
                  /\ UNCHANGED <<feeds, feed_entries, channelSubs>>
             ELSE IF made.raised
             THEN /\ Answer(h, c, f, "entries", "raised", FALSE)
                  /\ UNCHANGED <<feeds, feed_entries, channelSubs>>
             ELSE /\ feeds' = [made.feeds EXCEPT ![f] =
                                  ApplyFeedUpd(@, UpdateFeedMetadata(etag, last_modified))]
                  /\ feed_entries' = CreateEntriesBulk(feed_entries, f, res.entries).rows
                  /\ ChannelSubscription(h, c, f, "entries")
    /\ UNCHANGED <<adapters, subscriptions, sent_entries, loopVars, histVars,
                   cyclesLeft, faultsLeft, bulkVars, confVars, svcVars, settings,
                   translation, sentMessage, settingsCall>>

NextChannels ==
    \/ \E h \in Handlers, c \in Channels, f \in FeedIds : ChannelSubscribeBegins(h, c, f)
    \/ \E h \in Handlers : ChannelSubscribeFetched(h)

\* no feed is stored and no channel has subscribed, under any quota setting
SpecChannels == InitCmd /\ [][NextChannels]_vars

\* commands i and j of the log were both fetching the feed of a URL that had
\* no row, for different channels
BothFetched(i, j) ==
    /\ cmdLog[i].url = cmdLog[j].url
    /\ cmdLog[i].channel # cmdLog[j].channel
    /\ cmdLog[i].fetch = "entries"
    /\ cmdLog[j].fetch = "entries"

\* C38: two subscribe commands of different channels that both fetched the
\* feed of a URL unknown to them both return success, each channel has its
\* subscription, and the URL has its feed row
C38_BothSubscribed ==
    \A i, j \in 1..Len(cmdLog) :
        (i < j /\ BothFetched(i, j)) =>
            /\ feeds[cmdLog[i].url] # NoRow
            /\ \A k \in {i, j} :
                  /\ cmdLog[k].result = "success"
                  /\ channelSubs[<<cmdLog[k].channel, cmdLog[k].url>>] # NoRow

\* ------------------------------------------------------- purged receipts
\* the step is a cleanup_old_sent_entries that deletes the receipt of pair p
ReceiptPurged(p) ==
    /\ p \in aged.receipts
    /\ aged'.receipts = {}
    /\ feed_entries' = feed_entries
    /\ subscriptions' = subscriptions
    /\ sent_entries[p] > 0
    /\ sent_entries'[p] = 0

\* the entries get_unsent_entries_for_subscription may return for
\* subscription s on the tables as the step leaves them
UnsentAfter(s) ==
    UNION {{q[i] : i \in 1..Len(q)} :
              q \in GetUnsentEntries(feed_entries', sent_entries', subscriptions',
                                     s, UnsentLimit)}

\* C39: when cleanup_old_sent_entries deletes the receipt of a subscription
\* for an entry, get_unsent_entries_for_subscription does not return that
\* entry for the subscription afterwards
C39_PurgedStaysSent ==
    [][\A p \in Pairs :
          ReceiptPurged(p) => <<p[1][2], p[2]>> \notin UnsentAfter(p[1])]_vars

\* ------------------------------------------- an adapter that registers late
\* every item of feed 1 is stored, and nothing of the other feeds yet
SeenFirstFeed == [k \in Keys |-> IF k[1] = 1 THEN <<PubOf(k[2])>> ELSE <<>>]

\* A restart of a deployment whose channel has subscribed to every feed and
\* has received what is stored: the Telegram adapter has started, and with it
\* a dispatch loop; the Discord client has not reported ready yet
InitAdapter ==
    /\ adapters = {"telegram"}
    /\ pc = [l \in Platforms |-> IF l = "telegram" THEN "idle" ELSE "off"]
    /\ feeds = [f \in FeedIds |-> NewFeed]
    /\ feed_entries = SeenFirstFeed
    /\ subscriptions = [s \in SubKeys |-> [is_active |-> TRUE]]
    /\ sent_entries = [p \in Pairs |-> Len(SeenFirstFeed[<<p[1][2], p[2]>>])]
    /\ cyclesLeft = MaxCycles
    /\ faultsLeft = MaxFaults
    /\ validators = {0}
    /\ max_feeds_per_channel = 0
    /\ translator = FALSE
    /\ foreign_keys = FALSE
    /\ truncation = NoTruncation
    /\ backlog = NoBacklog
    /\ raising = FALSE
    /\ InitLocals

NextAdapter ==
    \/ \E p \in Platforms : OnReady(p)
    \/ NextErr

SpecAdapter == InitAdapter /\ [][NextAdapter]_vars

\* the subscriptions loop m's cycle has passed over at "if not adapter:
\* return 0": those of its list it is done with and never queried
Skipped(m) ==
    IF pc[m] = "sending" \/ (pc[m] = "done" /\ cyc[m].outcome = "committed")
    THEN {s \in SubKeys :
            /\ subscriptions[s] # NoRow
            /\ subscriptions[s].is_active
            /\ s \notin cyc[m].queried
            /\ \A i \in 1..Len(subsTodo[m]) : subsTodo[m][i] # s}
    ELSE {}

\* a cycle that passes over a subscription writes no receipt for it and
\* sends it nothing
SkippedUntouched ==
    \A m \in Platforms : \A s \in Skipped(m) : \A g \in GuidsOf(s[2]) :
        /\ sess[m].receipts[<<s, g>>] = 0
        /\ <<s, g>> \notin TriedPairs(cyc[m].log)

\* loop l has ended the first cycle begun after loop m's, in which nothing
\* failed; m's cycle, the process's first, was committed
FirstCycleAfter(m, l) ==
    /\ pc[m] = "done"
    /\ cyc[m].outcome = "committed"
    /\ pc[l] = "done"
    /\ cyc[l].outcome # "rolledback"
    /\ cyc[l].failedFeeds = {}
    /\ FailedPairs(cyc[l].log) = {}
    /\ cyclesLeft = MaxCycles - 2

\* C40: a subscription passed over for lack of an adapter gets no receipt in
\* that cycle, and after the first cycle of the loop its adapter started once
\* registered, every stored entry of its feed has been sent to it
C40_SentOnceRegistered ==
    /\ SkippedUntouched
    /\ \A s \in SubKeys : \A m \in Platforms \ {s[1]} :
          (s \in Skipped(m) /\ FirstCycleAfter(m, s[1])) =>
              \A g \in GuidsOf(s[2]) :
                  feed_entries[<<s[2], g>>] # <<>> => sent_entries[<<s, g>>] = 1

====
